---- MODULE Spec2Model ----
(***************************************************************************)
(* The signal-to-order pipeline of src/index.js (the strategy-keyed        *)
(* version, lines 794-1953): SignalManager.processSignal over the Redis    *)
(* ledger (TradeDatabase) and the exchange client (OKXClient).             *)
(*                                                                         *)
(* Every processSignal invocation is a task.  A task is suspended at each  *)
(* await; one action of the model is the part of the handler that runs     *)
(* between two accesses to shared state (the Redis ledger, the exchange's  *)
(* order book, the in-process cooldown and daily-trade maps).  Requests    *)
(* that only read the exchange (instruments, account balance, ticker)      *)
(* return a value the model picks from a small set, in the action that     *)
(* consumes it.  A Redis command either succeeds or throws; the ledger     *)
(* methods catch and return their fallback value, as the code does.        *)
(***************************************************************************)
EXTENDS Integers, Sequences, FiniteSets, TLC

(***************************************************************************)
(* Bounds of the model.                                                    *)
(***************************************************************************)
\* processSignal invocations in one behaviour, when two may be in flight
MaxSignals == 2
\* processSignal invocations in one behaviour, when they run one at a time
MaxSequential == 3
\* the clock runs from 1 to MaxTime ticks
MaxTime == 2
\* milliseconds per tick of the model's clock: two signals of one tick are
\* within the cooldown window, two signals a tick apart are not
TickMs == 60000
\* config.MAX_DAILY_TRADES is 5000 (src/index.js:830); the model scales the
\* ceiling down to the number of signals of a behaviour
MAX_DAILY_TRADES == 3

(***************************************************************************)
(* Program constants (config, src/index.js:804-837).                       *)
(***************************************************************************)
BUY_AMOUNT_USDT == 1000
COOLDOWN_SECONDS == 60
DayMs == 86400000

(***************************************************************************)
(* JavaScript values: a signal field is undefined (absent), null, a string *)
(* or a number.                                                            *)
(***************************************************************************)
U == [t |-> "undef", s |-> "", n |-> 0]
NullV == [t |-> "null", s |-> "", n |-> 0]
S(str) == [t |-> "str", s |-> str, n |-> 0]
N(num) == [t |-> "num", s |-> "", n |-> num]

Truthy(v) ==
    CASE v.t = "str" -> v.s # ""
      [] v.t = "num" -> v.n # 0
      [] OTHER -> FALSE

\* `${v}` in a template string
Str(v) ==
    CASE v.t = "str" -> v.s
      [] v.t = "num" -> ToString(v.n)
      [] v.t = "null" -> "null"
      [] OTHER -> "undefined"

\* String.prototype.toLowerCase over the strings the model uses
ToLowerCase(s) ==
    CASE s \in {"BUY", "Buy"} -> "buy"
      [] s \in {"SELL", "Sell"} -> "sell"
      [] s \in {"SOL", "Sol"} -> "sol"
      [] s \in {"SOL-USDT", "Sol-Usdt"} -> "sol-usdt"
      [] s \in {"N/A", "n/a", "N/a"} -> "n/a"
      [] s \in {"AM", "Am"} -> "am"
      [] s \in {"QU", "Qu"} -> "qu"
      [] s \in {"A"} -> "a"
      [] s \in {"B"} -> "b"
      [] s \in {"1M"} -> "1m"
      [] s \in {"MARKET", "Market"} -> "market"
      [] s \in {"LIMIT", "Limit"} -> "limit"
      [] OTHER -> s

\* String.prototype.toUpperCase over the strings the model uses
ToUpperCase(s) ==
    CASE s \in {"sol", "Sol"} -> "SOL"
      [] s \in {"sol-usdt", "Sol-Usdt"} -> "SOL-USDT"
      [] s \in {"solusdt"} -> "SOLUSDT"
      [] OTHER -> s

(***************************************************************************)
(* Maps (a Redis keyspace, a JavaScript Map): functions on the keys set.   *)
(***************************************************************************)
EmptyMap == [x \in {} |-> 0]
Has(m, k) == k \in DOMAIN m
Put(m, k, v) == [x \in DOMAIN m \cup {k} |-> IF x = k THEN v ELSE m[x]]
Del(m, k) == [x \in DOMAIN m \ {k} |-> m[x]]

\* a number that is absent (null): prices, balances and quantities are >= 0
NoVal == -1


(***************************************************************************)
(* TradeDatabase (src/index.js:856-1035).  `ok` is whether the Redis       *)
(* command of the call succeeded; when it throws the method's catch block  *)
(* returns the fallback.                                                   *)
(***************************************************************************)
\* the ledger key of the single-coin server (src/index.js:103-185), which
\* names the coin only, against which the isolation of the keys is tried
GetStrategyKeyByCoin(coin, category, subcategory) == <<Str(coin), "", "">>

\* `${coin}:${category}:${subcategory}`, kept as its three rendered parts
GetStrategyKey(coin, category, subcategory) ==
    <<Str(coin), Str(category), Str(subcategory)>>

\* getBuyPosition's null
NullPos ==
    [quantity |-> NoVal, usdtSpent |-> NoVal, orderId |-> 0, status |-> "null"]

\* the fields of the hash that the ledger reads back
PositionRecord(quantity, price, usdtSpent, orderId) ==
    [quantity |-> quantity, usdtSpent |-> usdtSpent, orderId |-> orderId,
     status |-> "active"]

StoreBuyOrder(pos, key, quantity, price, usdtSpent, orderId, ok) ==
    IF ok THEN Put(pos, key, PositionRecord(quantity, price, usdtSpent, orderId))
    ELSE pos

GetBuyPosition(pos, key, ok) ==
    IF ok /\ Has(pos, key) THEN pos[key] ELSE NullPos

ClearBuyPosition(pos, key, ok) ==
    IF ok THEN Del(pos, key) ELSE pos

\* a canBuy that never refuses, against which the alternation of buys and
\* sells is tried
CanBuyAlways(p) == TRUE

\* canBuy / canSell, on the position getBuyPosition returned
CanBuy(p) == p = NullPos \/ p.status # "active"
CanSell(p) == p # NullPos /\ p.status = "active" /\ p.quantity > 0

StoreTradingBalance(bal, key, usdtAmount, ok) ==
    IF ok THEN Put(bal, key, usdtAmount) ELSE bal

\* the stored value is a string: "0" is truthy, so only a missing key
\* gives the default
GetTradingBalance(bal, key, ok) ==
    IF ok /\ Has(bal, key) THEN bal[key] ELSE BUY_AMOUNT_USDT

\* isFirstTrade's result from its two reads (each succeeded)
IsFirstTrade(hasBalance, hasPosition) ==
    ~hasBalance /\ ~hasPosition

(***************************************************************************)
(* SignalManager's in-process maps (src/index.js:1400-1428).               *)
(***************************************************************************)
CooldownKey(symbol, action, subcategory) ==
    IF Truthy(subcategory)
    THEN <<symbol, action, Str(subcategory)>>
    ELSE <<symbol, action>>

IsInCooldown(cd, key, time) ==
    /\ Has(cd, key)
    /\ cd[key] # 0
    /\ (time - cd[key]) * TickMs < COOLDOWN_SECONDS * 1000

\* a setCooldown that records nothing, against which the cooldown property
\* is tried
SetCooldownForgets(cd, key, time) == cd

SetCooldown(cd, key, time) == Put(cd, key, time)

\* new Date().toDateString(): the calendar day of the clock
Today(time) == (time * TickMs) \div DayMs

TradesToday(dt, time) ==
    IF Has(dt, Today(time)) THEN dt[Today(time)] ELSE 0

\* a check that lets the counter pass the ceiling, against which the daily
\* ceiling is tried
CheckDailyLimitLate(dt, time) == TradesToday(dt, time) <= MAX_DAILY_TRADES

\* checkDailyLimit's result, and the map after it
CheckDailyLimit(dt, time) == TradesToday(dt, time) < MAX_DAILY_TRADES

DailyTradesAfter(dt, time) ==
    IF CheckDailyLimit(dt, time)
    THEN Put(dt, Today(time), TradesToday(dt, time) + 1)
    ELSE dt

(***************************************************************************)
(* OKXClient.validateSymbol (src/index.js:1255-1296).  `listed` is the set *)
(* of instrument ids the exchange lists; the request numbered `failAt`     *)
(* throws (0: none does).                                                  *)
(***************************************************************************)
\* symbol.replace('-', '')
RemoveSeparator(symbol) ==
    CASE symbol = "SOL-USDT" -> "SOLUSDT"
      [] symbol = "SOL-USD" -> "SOLUSD"
      [] OTHER -> symbol

\* symbol.replace('-', '_')
UnderscoreSeparator(symbol) ==
    CASE symbol = "SOL-USDT" -> "SOL_USDT"
      [] symbol = "SOL-USD" -> "SOL_USD"
      [] OTHER -> symbol

\* symbol.replace('-USDT', '-USD')
UsdQuote(symbol) ==
    CASE symbol = "SOL-USDT" -> "SOL-USD"
      [] OTHER -> symbol

Alternatives(symbol) ==
    <<RemoveSeparator(symbol), UnderscoreSeparator(symbol), UsdQuote(symbol)>>

\* a validateSymbol that looks up the symbol as given only, against which
\* the tolerance of the validation is tried
LookupsAsGiven(symbol) == <<symbol>>

\* the lookups validateSymbol makes, in order, while none hits
Lookups(symbol) ==
    <<symbol>> \o SelectSeq(Alternatives(symbol), LAMBDA alt : alt # symbol)

RECURSIVE ValidateFrom(_, _, _, _)
ValidateFrom(reqs, i, listed, failAt) ==
    IF i > Len(reqs) THEN FALSE
    ELSE IF failAt = i THEN FALSE
    ELSE IF reqs[i] \in listed THEN TRUE
    ELSE ValidateFrom(reqs, i + 1, listed, failAt)

ValidateSymbol(symbol, listed, failAt) ==
    ValidateFrom(Lookups(symbol), 1, listed, failAt)

(***************************************************************************)
(* processSignal's normalisation and field checks (src/index.js:1433-1502):*)
(* the part of the handler before its first await.                         *)
(***************************************************************************)
\* a normalisation that keeps the letter case, against which the strategy
\* key's independence of casing is tried
NormalizeValueKeepsCase(v) ==
    IF v.t = "str" /\ ToLowerCase(v.s) = "n/a" THEN NullV ELSE v

NormalizeValue(v) ==
    IF v.t = "str"
    THEN IF ToLowerCase(v.s) = "n/a" THEN NullV ELSE S(ToLowerCase(v.s))
    ELSE v

\* x || null
OrNull(v) == IF Truthy(v) THEN v ELSE NullV

\* x.toUpperCase() under `if (x)`: a truthy value that is no string throws
UpperThrows(v) == Truthy(v) /\ v.t # "str"
Upper(v) == IF Truthy(v) /\ v.t = "str" THEN S(ToUpperCase(v.s)) ELSE v

Normalize(raw) ==
    LET nz == [f \in DOMAIN raw |-> NormalizeValue(raw[f])]
        price == OrNull(nz.price)
        orderType == IF ~Truthy(nz.orderType)
                     THEN (IF Truthy(price) THEN S("limit") ELSE S("market"))
                     ELSE nz.orderType
        recurringMode == IF ~Truthy(nz.recurringMode)
                            \/ nz.recurringMode \notin {S("am"), S("qu")}
                         THEN S("am") ELSE nz.recurringMode
    IN  [action |-> nz.action,
         symbol |-> Upper(nz.symbol),
         coin |-> Upper(nz.coin),
         recurringMode |-> recurringMode,
         orderType |-> orderType,
         price |-> price,
         category |-> nz.category,
         subcategory |-> nz.subcategory,
         initialAmount |-> OrNull(nz.initialAmount),
         initialQuantity |-> OrNull(nz.initialQuantity)]

\* field checks that let any action through, against which the handling of
\* malformed signals is tried
FieldCheckAnyAction(raw) ==
    LET nz == [f \in DOMAIN raw |-> NormalizeValue(raw[f])]
        sg == Normalize(raw)
    IN  IF sg.orderType \notin {S("market"), S("limit")}
        THEN "Invalid orderType"
        ELSE IF UpperThrows(nz.coin) \/ UpperThrows(nz.symbol)
        THEN "throw"
        ELSE IF ~Truthy(sg.symbol) \/ ~Truthy(sg.coin)
        THEN "Missing coin or symbol information"
        ELSE "ok"

\* the outcome of the synchronous checks, in the code's order: "ok", or the
\* error the handler returns, or "throw" (a TypeError the handler's own
\* try/catch turns into a failure result)
FieldCheck(raw) ==
    LET nz == [f \in DOMAIN raw |-> NormalizeValue(raw[f])]
        sg == Normalize(raw)
    IN  IF sg.orderType \notin {S("market"), S("limit")}
        THEN "Invalid orderType"
        ELSE IF UpperThrows(nz.coin) \/ UpperThrows(nz.symbol)
        THEN "throw"
        ELSE IF ~Truthy(sg.action) \/ sg.action \notin {S("buy"), S("sell")}
        THEN "Invalid or missing action"
        ELSE IF ~Truthy(sg.symbol) \/ ~Truthy(sg.coin)
        THEN "Missing coin or symbol information"
        ELSE "ok"

StrategyKeyOf(sg) == GetStrategyKey(sg.coin, sg.category, sg.subcategory)
CooldownKeyOf(sg) == CooldownKey(Str(sg.symbol), Str(sg.action), sg.subcategory)

\* the fields of a signal that processSignal reads
RawSignal(action, symbol, coin, category, subcategory, recurringMode, orderType, price, initialAmount, initialQuantity) ==
    [action |-> action, symbol |-> symbol, coin |-> coin,
     category |-> category, subcategory |-> subcategory,
     recurringMode |-> recurringMode, orderType |-> orderType,
     price |-> price, initialAmount |-> initialAmount,
     initialQuantity |-> initialQuantity]

\* a signal none of whose fields is present
NoFields == RawSignal(U, U, U, U, U, U, U, U, U, U)

(***************************************************************************)
(* TradingViewParser.parseMessage (src/index.js:1301-1377) and the body    *)
(* handling of POST /webhook (src/index.js:1747-1764).  A text body is the *)
(* sequence of its trimmed, non-empty lines; a line is <<key, value>>,     *)
(* split at its first colon, or <<word>> when it has none.                 *)
(***************************************************************************)
\* value.replace(/[;]/g, '-') over the strings the model uses
ReplaceSemicolons(s) ==
    CASE s = "sol;usdt" -> "sol-usdt"
      [] s = "Sol;Usdt" -> "Sol-Usdt"
      [] s = "SOL;USDT" -> "SOL-USDT"
      [] OTHER -> s

\* coinPair.includes('-')
IncludesDash(s) == s \in {"SOL-USDT", "sol-usdt", "Sol-Usdt"}

\* coinPair.split('-')[0]
BeforeDash(s) ==
    CASE s = "SOL-USDT" -> "SOL"
      [] OTHER -> s

\* the pair a `coin` line names, in the exchange's BASE-QUOTE form
CoinPair(value) ==
    LET coinPair == ToUpperCase(ReplaceSemicolons(value))
    IN  IF IncludesDash(coinPair) THEN coinPair ELSE coinPair \o "-USDT"

\* parseFloat(value) || null over the strings the model uses
ParseFloatOrNull(value) ==
    CASE value = "64" -> N(64)
      [] value = "2" -> N(2)
      [] OTHER -> NullV

\* the switch on the line's key; `quantity` and `amount` set fields that
\* processSignal does not read
ParseLine(parsed, line) ==
    IF Len(line) < 2 THEN parsed
    ELSE LET key == ToLowerCase(line[1])
             value == line[2]
         IN  CASE key = "coin" ->
                    [parsed EXCEPT !.symbol = S(CoinPair(value)),
                                   !.coin = S(BeforeDash(CoinPair(value)))]
               [] key = "cat" -> [parsed EXCEPT !.category = S(value)]
               [] key = "scat" -> [parsed EXCEPT !.subcategory = S(value)]
               [] key = "action" ->
                    [parsed EXCEPT !.action = S(ToLowerCase(value))]
               [] key = "recurringmode" ->
                    [parsed EXCEPT !.recurringMode = S(ToLowerCase(value))]
               [] key = "ordertype" ->
                    [parsed EXCEPT !.orderType = S(ToLowerCase(value))]
               [] key = "price" ->
                    [parsed EXCEPT !.price = ParseFloatOrNull(value)]
               [] key = "initialamount" ->
                    [parsed EXCEPT !.initialAmount = ParseFloatOrNull(value)]
               [] key = "initialquantity" ->
                    [parsed EXCEPT !.initialQuantity = ParseFloatOrNull(value)]
               [] OTHER -> parsed

RECURSIVE ParseLines(_, _, _)
ParseLines(parsed, lines, i) ==
    IF i > Len(lines) THEN parsed
    ELSE ParseLines(ParseLine(parsed, lines[i]), lines, i + 1)

\* lines 1361-1368: 'Invalid or missing action', 'Missing coin pair'
ParseThrows(parsed) ==
    \/ ~Truthy(parsed.action)
    \/ parsed.action \notin {S("buy"), S("sell")}
    \/ ~Truthy(parsed.symbol)

\* req.body.toLowerCase().trim(): the lines lower-cased and joined again
RECURSIVE LowerText(_, _)
LowerText(lines, i) ==
    LET line == IF Len(lines[i]) < 2 THEN ToLowerCase(lines[i][1])
                ELSE ToLowerCase(lines[i][1]) \o ":" \o ToLowerCase(lines[i][2])
    IN  IF i = Len(lines) THEN line
        ELSE line \o "\n" \o LowerText(lines, i + 1)

\* a body that express has parsed as JSON, a string that JSON.parse accepts,
\* a text block
ObjectBody(obj) == [kind |-> "object", obj |-> obj, lines |-> <<>>]
JsonBody(obj) == [kind |-> "json", obj |-> obj, lines |-> <<>>]
TextBody(lines) == [kind |-> "text", obj |-> NoFields, lines |-> lines]

\* the signal the handler passes to processSignal
Webhook(body) ==
    IF body.kind \in {"object", "json"} THEN body.obj
    ELSE LET parsed == ParseLines(NoFields, body.lines, 1)
         IN  IF ParseThrows(parsed)
             THEN [NoFields EXCEPT !.action = S(LowerText(body.lines, 1))]
             ELSE parsed


(***************************************************************************)
(* Inputs.                                                                 *)
(***************************************************************************)
\* a well-formed alert for SOL-USDT on the 1m timeframe
Alert(action, category, recurringMode, initialAmount, initialQuantity) ==
    RawSignal(S(action), S("SOL-USDT"), S("SOL"), S(category), S("1m"),
              recurringMode, U, U, initialAmount, initialQuantity)

\* recurringMode is read by the sell branches only, initialAmount by the buy
\* branches only, and initialQuantity takes precedence over initialAmount
BuySignals ==
    { Alert("buy", "a", U, U, U), Alert("buy", "a", U, N(64), U),
      Alert("buy", "a", U, U, N(2)), Alert("buy", "a", U, N(64), N(2)) }

SellSignals ==
    { Alert("sell", "a", S(m), U, U) : m \in {"am", "qu"} }
    \cup { Alert("sell", "a", S(m), U, N(2)) : m \in {"am", "qu"} }

MalformedSignals ==
    { RawSignal(S("hold"), S("SOL-USDT"), S("SOL"), S("a"), S("1m"), U, U, U, U, U),
      RawSignal(S("buy"), S("SOL-USDT"), U, S("a"), S("1m"), U, U, U, U, U),
      RawSignal(S("buy"), S("SOL-USDT"), N(7), S("a"), S("1m"), U, U, U, U, U),
      RawSignal(S("buy"), S("SOL-USDT"), S("SOL"), S("a"), S("1m"), U, S("stop"), U, U, U) }

Signals == BuySignals \cup SellSignals \cup MalformedSignals

\* what the exchange lists, and which instruments request throws
Listings == { {}, {"SOL-USDT"}, {"SOLUSDT"} }
FailAts == {0, 1}

\* lines 1433-1509: the error processSignal returns before it reads the
\* ledger, or "ok"
Admission(raw, listed, failAt) ==
    IF FieldCheck(raw) # "ok" THEN FieldCheck(raw)
    ELSE IF ~ValidateSymbol(Str(Normalize(raw).symbol), listed, failAt)
    THEN "Symbol not available on OKX"
    ELSE "ok"

\* the signals that arrive while another is in flight: strategies a and b
\* share the symbol and the timeframe, and so the cooldown entry
ConcurrentSignals ==
    { Alert("buy", c, U, U, U) : c \in {"a", "b"} }
    \cup { Alert("sell", "a", S(m), U, U) : m \in {"am", "qu"} }
    \cup MalformedSignals

\* the signal of an arriving body, normalised, with the outcome of its
\* admission and whether validateSymbol was called
Arrival(body, listed, failAt) ==
    [sg |-> Normalize(Webhook(body)),
     adm |-> Admission(Webhook(body), listed, failAt),
     validated |-> FieldCheck(Webhook(body)) = "ok",
     src |-> body.kind,
     given |-> [orderType |-> Webhook(body).orderType,
                price |-> Webhook(body).price]]

ArrivalsOf(signals) ==
    { Arrival(ObjectBody(raw), listed, failAt) :
        raw \in signals, listed \in Listings, failAt \in FailAts }

\* text blocks with an action that is neither buy nor sell, without a coin
\* line, and of one word
MalformedTexts ==
    { TextBody(<< <<"action", "hold">>, <<"coin", "sol;usdt">> >>),
      TextBody(<< <<"Action", "Buy">>, <<"cat", "a">> >>),
      TextBody(<< <<"buy">> >>) }

TextArrivals ==
    { Arrival(body, listed, failAt) :
        body \in MalformedTexts, listed \in Listings, failAt \in FailAts }

Arrivals == ArrivalsOf(ConcurrentSignals) \cup TextArrivals
SequentialArrivals == ArrivalsOf(Signals)
\* getBalance('USDT').available (NoVal: getBalance returned null)
Availables == {NoVal, 10, 100000}
\* getTicker(symbol).last (NoVal: getTicker returned null)
Tickers == {NoVal, 1, 2}
\* getTicker(symbol).last while two signals may be in flight
ConcurrentTickers == {NoVal, 2}
\* whether the exchange accepts an order (code "0")
OrderOutcomes == BOOLEAN

\* the request-handling tasks in flight
Tasks == {1, 2}

(***************************************************************************)
(* State.                                                                  *)
(***************************************************************************)
VARIABLES
    position,     \* Redis: buy:<strategyRef> hashes
    balance,      \* Redis: balance:<strategyRef> strings
    cooldowns,    \* SignalManager.cooldowns
    dailyTrades,  \* SignalManager.dailyTrades
    now,          \* Date.now(), in ticks
    sent,         \* the primary order the last step sent to the exchange
    asked,        \* whether the last step made a request to the exchange
    returned,     \* the result the last step returned to processSignal's caller
    pc,           \* where each task is suspended
    sig,          \* each task's normalised signal
    loc,          \* each task's local variables
    started,      \* processSignal invocations so far
    lastOk,       \* history: per signal identity, when its last successful
                  \* execution set the cooldown
    lastSide,     \* history: per strategy key, the side of the last order
                  \* the exchange accepted
    lastSell,     \* history: per strategy key, the last successful sell
                  \* since which no buy order was submitted
    everWritten,  \* history: the strategy keys a ledger write has succeeded for
    cooldownBy,   \* history: per cooldown entry, the strategy key of the
                  \* execution that set it
    sltp,         \* one call of placeOrderWithSLTP and its single-coin caller
    hook,         \* two webhook bodies on their way to their strategy keys
    req,          \* one call of OKXClient.request
    redisFaults,  \* whether Redis commands may throw in this behaviour
    quotes,       \* what getTicker may return in this behaviour
    symcheck,     \* one call of validateSymbol and the processSignal that
                  \* awaits it
    funds         \* the exchange's USDT and two buy signals between their
                  \* balance read and their order

\* the state of the multi-strategy server
main == <<position, balance, cooldowns, dailyTrades, now, sent, asked,
          returned, pc,
          sig, loc, started, lastOk, lastSide, lastSell, everWritten,
          cooldownBy>>

\* the state of the operations that are followed on their own
aux == <<sltp, hook, req, redisFaults, quotes, symcheck, funds>>

vars == <<main, aux>>

\* whether a Redis command succeeds
RedisOutcomes == IF redisFaults THEN BOOLEAN ELSE {TRUE}

NoSignal == Normalize(RawSignal(U, U, U, U, U, U, U, U, U, U))

NoLocals ==
    [eligible |-> FALSE, pos |-> NullPos, hasBal |-> FALSE, amount |-> NoVal,
     size |-> NoVal, ordId |-> 0, price |-> NoVal, qty |-> NoVal,
     spent |-> NoVal, proceeds |-> NoVal,
     \* history: whether the ledger held a position for the key when
     \* canBuy/canSell read it; what isFirstTrade returned; the orders the
     \* task sent and when; when it set the cooldown; when the last
     \* successful execution of an identical signal that had returned before
     \* this one arrived set the cooldown
     held |-> FALSE, first |-> "", nsub |-> 0, placedAt |-> 0, setAt |-> 0,
     prevOk |-> 0,
     \* history: whether a ledger read of this invocation failed, so that
     \* what the catch block returned stood in for the stored value
     fab |-> FALSE,
     \* history: how the signal reached the webhook
     src |-> "",
     \* history: the available USDT that getBalance returned to a buy
     avail |-> NoVal,
     \* history: the orderType and the price of the signal as it arrived
     given |-> [orderType |-> U, price |-> U]]

NoSell == [mode |-> "", proceeds |-> NoVal, closed |-> NoVal]

NoOrder ==
    [key |-> <<>>, side |-> "", kind |-> "", size |-> NoVal, accepted |-> FALSE,
     prevSide |-> "", after |-> NoSell, fab |-> FALSE,
     \* whether the order call went on to POST /api/v5/trade/order-algo
     algo |-> FALSE]

\* the step sends no order
NothingSent == sent' = NoOrder

NoResult ==
    [res |-> "none", err |-> "", side |-> "", key |-> <<>>, nsub |-> 0,
     prevOk |-> 0, counted |-> FALSE, cdKey |-> <<>>, malformed |-> FALSE,
     src |-> "", given |-> [orderType |-> U, price |-> U]]

\* no call of placeOrderWithSLTP is being followed
NoSltp ==
    [pc |-> "idle", side |-> "", amount |-> NoVal, mainOrder |-> 0,
     last |-> NoVal, slOrder |-> <<>>, stop |-> "", result |-> 0,
     caller |-> "", cooldown |-> FALSE]

\* no webhook bodies are being followed
NoHook ==
    [pc |-> "idle", bodies |-> <<>>, signals |-> <<>>, normalized |-> <<>>,
     keys |-> <<>>, cdKeys |-> <<>>, checks |-> <<>>]

\* no call of request is being followed
NoReq ==
    [pc |-> "idle", method |-> "", path |-> "", params |-> <<>>,
     body |-> <<>>, timestamp |-> "", url |-> "", signedPath |-> "",
     bodyStr |-> "", message |-> "", sent |-> <<>>]

\* no call of validateSymbol is being followed
NoSymcheck ==
    [pc |-> "idle", symbol |-> "", listed |-> {}, failAt |-> 0, asked |-> <<>>,
     confirmed |-> "", result |-> FALSE, caller |-> "", instId |-> ""]

\* no buy signal is being followed to its order
NoBuyer ==
    [pc |-> "idle", category |-> "", tradingAmount |-> 0, balance |-> NoVal,
     error |-> ""]

\* no order has been submitted yet
NoSubmission == [by |-> 0, amount |-> 0, available |-> 0]

NoFunds ==
    [usdt |-> 0, buyer |-> [t \in Tasks |-> NoBuyer],
     submitted |-> NoSubmission]

\* the server after construction, but for the daily counter
InitServer ==
    /\ position = EmptyMap
    /\ balance = EmptyMap
    /\ cooldowns = EmptyMap
    /\ now = 1
    /\ sent = NoOrder
    /\ asked = FALSE
    /\ returned = NoResult
    /\ pc = [t \in Tasks |-> "idle"]
    /\ sig = [t \in Tasks |-> NoSignal]
    /\ loc = [t \in Tasks |-> NoLocals]
    /\ started = 0
    /\ lastOk = EmptyMap
    /\ lastSide = EmptyMap
    /\ lastSell = EmptyMap
    /\ everWritten = {}
    /\ cooldownBy = EmptyMap

\* this.dailyTrades = new Map()
NoTradesYet == dailyTrades = EmptyMap

Init ==
    /\ InitServer
    /\ NoTradesYet
    /\ sltp = NoSltp
    /\ hook = NoHook
    /\ req = NoReq
    /\ redisFaults = TRUE
    /\ quotes = ConcurrentTickers
    /\ symcheck = NoSymcheck
    /\ funds = NoFunds

Key(t) == StrategyKeyOf(sig[t])
CdKey(t) == CooldownKeyOf(sig[t])
Identity(sg) == <<CooldownKeyOf(sg), StrategyKeyOf(sg)>>

\* a catch block that rethrows, against which the structured-result property
\* is tried
CaughtRethrown == "exception"

\* the result of the handler's catch block (src/index.js:1705-1708)
Caught == "failure"

\* the signal names no action of buy or sell, or no coin, or no symbol
IsMalformed(sg) ==
    \/ sg.action \notin {S("buy"), S("sell")}
    \/ ~Truthy(sg.symbol)
    \/ ~Truthy(sg.coin)

\* the task is past the gates of lines 1516-1536, so that checkDailyLimit
\* has counted its signal
PastGates(t) == pc[t] \notin {"idle", "canBuy", "canSell"}

\* return { success, ... } for signal `sg`: the task ends
Return(t, sg, l, res, err) ==
    /\ pc' = [pc EXCEPT ![t] = "idle"]
    /\ sig' = [sig EXCEPT ![t] = NoSignal]
    /\ loc' = [loc EXCEPT ![t] = NoLocals]
    /\ returned' = [res |-> res, err |-> err, side |-> Str(sg.action),
                    key |-> StrategyKeyOf(sg), nsub |-> l.nsub,
                    prevOk |-> l.prevOk, counted |-> PastGates(t),
                    cdKey |-> CooldownKeyOf(sg), malformed |-> IsMalformed(sg),
                    src |-> l.src, given |-> l.given]

\* return { success: false, error }
Fail(t, err) == Return(t, sig[t], loc[t], "failure", err)

\* return { success: true, order, details }
Succeed(t, l) ==
    /\ Return(t, sig[t], l, "success", "")
    /\ lastOk' = Put(lastOk, Identity(sig[t]), l.setAt)

\* the task goes on to its next suspension point
Goto(t, l, label) ==
    /\ pc' = [pc EXCEPT ![t] = label]
    /\ loc' = [loc EXCEPT ![t] = l]
    /\ returned' = NoResult
    /\ UNCHANGED sig

IsBuy(t) == sig[t].action = S("buy")
IsSell(t) == sig[t].action = S("sell")

(***************************************************************************)
(* processSignal (src/index.js:1431-1709), one action per suspension.      *)
(***************************************************************************)
\* a new invocation takes the first free slot
FreeSlot(t) ==
    /\ pc[t] = "idle"
    /\ \A u \in Tasks : u < t => pc[u] # "idle"

\* lines 1433-1509: normalisation, the field checks and validateSymbol
Admit(t, a) ==
    LET prev == IF Has(lastOk, Identity(a.sg))
                THEN lastOk[Identity(a.sg)] ELSE 0
    IN  /\ started' = started + 1
        /\ IF a.adm = "throw"
           THEN Return(t, a.sg, [NoLocals EXCEPT !.src = a.src,
                                                 !.given = a.given],
                       Caught, "TypeError")
           ELSE IF a.adm # "ok"
           THEN Return(t, a.sg, [NoLocals EXCEPT !.prevOk = prev,
                                                 !.src = a.src,
                                                 !.given = a.given],
                       "failure", a.adm)
           ELSE /\ sig' = [sig EXCEPT ![t] = a.sg]
                /\ pc' = [pc EXCEPT ![t] = "canBuy"]
                /\ loc' = [loc EXCEPT ![t] = [NoLocals EXCEPT !.prevOk = prev,
                                                              !.src = a.src,
                                                              !.given = a.given]]
                /\ returned' = NoResult
        /\ UNCHANGED aux
        /\ UNCHANGED <<position, balance, everWritten, cooldowns, cooldownBy, dailyTrades,
                       now, lastOk, lastSide, lastSell>>
        /\ NothingSent
        /\ asked' = a.validated

\* a signal arrives, possibly while another is being processed
Start(t) ==
    /\ FreeSlot(t)
    /\ started < MaxSignals
    /\ \E a \in Arrivals : Admit(t, a)

\* a signal arrives when none is being processed
StartAlone(t) ==
    /\ \A u \in Tasks : pc[u] = "idle"
    /\ FreeSlot(t)
    /\ started < MaxSequential
    /\ \E a \in SequentialArrivals : Admit(t, a)

\* line 1512: canBuy's read of the position; a sell does not use its result
CanBuyRead(t) ==
    /\ pc[t] = "canBuy"
    /\ \E ok \in RedisOutcomes :
         IF IsBuy(t)
         THEN Goto(t, [loc[t] EXCEPT
                         !.eligible = CanBuy(GetBuyPosition(position, Key(t), ok)),
                         !.held = Has(position, Key(t)),
                         !.fab = ~ok], "canSell")
         ELSE Goto(t, loc[t], "canSell")
    /\ NothingSent
    /\ asked' = FALSE
    /\ UNCHANGED aux
    /\ UNCHANGED <<position, balance, everWritten, cooldowns, cooldownBy, dailyTrades,
                   now, started, lastOk, lastSide, lastSell>>

\* gates without the eligibility check, against which the account of the
\* check-then-write race is tried
GateUnchecked(t, l) ==
    IF IsInCooldown(cooldowns, CdKey(t), now)
    THEN Fail(t, "Signal in cooldown period") /\ UNCHANGED dailyTrades /\ asked' = FALSE
    ELSE IF ~CheckDailyLimit(dailyTrades, now)
    THEN Fail(t, "Daily trade limit reached") /\ UNCHANGED dailyTrades /\ asked' = FALSE
    ELSE /\ dailyTrades' = DailyTradesAfter(dailyTrades, now)
         /\ asked' = TRUE
         /\ Goto(t, l, IF IsBuy(t) THEN "firstBal" ELSE "sellPos")

\* gates that count the signal before they check it, against which the
\* order of the gates is tried
GateCountsFirst(t, l) ==
    /\ dailyTrades' = DailyTradesAfter(dailyTrades, now)
    /\ IF ~CheckDailyLimit(dailyTrades, now)
       THEN Fail(t, "Daily trade limit reached") /\ asked' = FALSE
       ELSE IF IsBuy(t) /\ ~l.eligible
       THEN Fail(t, "Already have active position") /\ asked' = FALSE
       ELSE IF IsSell(t) /\ ~l.eligible
       THEN Fail(t, "No active position to sell") /\ asked' = FALSE
       ELSE IF IsInCooldown(cooldowns, CdKey(t), now)
       THEN Fail(t, "Signal in cooldown period") /\ asked' = FALSE
       ELSE /\ asked' = TRUE
            /\ Goto(t, l, IF IsBuy(t) THEN "firstBal" ELSE "sellPos")

\* lines 1516-1536: the eligibility, cooldown and daily-limit gates, which
\* run without suspension once canSell has returned
Gate(t, l) ==
    IF IsBuy(t) /\ ~l.eligible
    THEN Fail(t, "Already have active position") /\ UNCHANGED dailyTrades /\ asked' = FALSE
    ELSE IF IsSell(t) /\ ~l.eligible
    THEN Fail(t, "No active position to sell") /\ UNCHANGED dailyTrades /\ asked' = FALSE
    ELSE IF IsInCooldown(cooldowns, CdKey(t), now)
    THEN Fail(t, "Signal in cooldown period") /\ UNCHANGED dailyTrades /\ asked' = FALSE
    ELSE IF ~CheckDailyLimit(dailyTrades, now)
    THEN Fail(t, "Daily trade limit reached") /\ UNCHANGED dailyTrades /\ asked' = FALSE
    ELSE /\ dailyTrades' = DailyTradesAfter(dailyTrades, now)
         /\ asked' = TRUE
         /\ Goto(t, l, IF IsBuy(t) THEN "firstBal" ELSE "sellPos")

\* line 1513: canSell's read of the position, whose result a buy does not
\* use, then the gates
CanSellRead(t) ==
    /\ pc[t] = "canSell"
    /\ \E ok \in RedisOutcomes :
         IF IsSell(t)
         THEN Gate(t, [loc[t] EXCEPT
                         !.eligible = CanSell(GetBuyPosition(position, Key(t), ok)),
                         !.held = Has(position, Key(t)),
                         !.fab = ~ok])
         ELSE Gate(t, loc[t])
    /\ NothingSent
    /\ UNCHANGED aux
    /\ UNCHANGED <<position, balance, everWritten, cooldowns, cooldownBy, now,
                   started, lastOk, lastSide, lastSell>>

\* line 1585: the sell branch's getBuyPosition
SellPosRead(t) ==
    /\ pc[t] = "sellPos"
    /\ \E ok \in RedisOutcomes :
         Goto(t, [loc[t] EXCEPT !.pos = GetBuyPosition(position, Key(t), ok),
                                !.held = FALSE, !.fab = @ \/ ~ok], "firstBal")
    /\ NothingSent
    /\ asked' = FALSE
    /\ UNCHANGED aux
    /\ UNCHANGED <<position, balance, everWritten, cooldowns, cooldownBy, dailyTrades,
                   now, started, lastOk, lastSide, lastSell>>

\* balance.available < tradingAmount, with a null balance
InsufficientFunds(avail, amount) == avail = NoVal \/ avail < amount

\* a first buy that ignores initialAmount, against which the sizing of the
\* first buy is tried
FirstBuyAmountDefault(sg) == BUY_AMOUNT_USDT

\* lines 1554-1565: the first buy's amount when no initialQuantity is given
FirstBuyAmount(sg) ==
    IF Truthy(sg.initialAmount) THEN sg.initialAmount.n ELSE BUY_AMOUNT_USDT

\* a sizing whose subsequent sell takes initialQuantity when the signal
\* gives one, against which the size of a sell is tried
SizingSellOverride(t, l0, first, avail) ==
    LET l == [l0 EXCEPT !.first = IF first THEN "yes" ELSE "no",
                        !.avail = IF IsBuy(t) THEN avail ELSE NoVal] IN
    IF IsBuy(t)
    THEN IF first
         THEN IF Truthy(sig[t].initialQuantity)
              THEN Goto(t, [l EXCEPT !.size = sig[t].initialQuantity.n], "place")
              ELSE IF InsufficientFunds(avail, FirstBuyAmount(sig[t]))
              THEN Fail(t, "Insufficient USDT balance for trade")
              ELSE Goto(t, [l EXCEPT !.amount = FirstBuyAmount(sig[t]),
                                     !.size = FirstBuyAmount(sig[t])], "place")
         ELSE Goto(t, [l EXCEPT !.avail = NoVal], "tradingBal")
    ELSE IF Truthy(sig[t].initialQuantity)
         THEN Goto(t, [l EXCEPT !.size = sig[t].initialQuantity.n,
                                !.pos = NullPos], "place")
         ELSE IF first /\ sig[t].recurringMode = S("am")
         THEN Fail(t, "Cannot sell on first trade for Am mode")
         ELSE IF l.pos = NullPos
         THEN Fail(t, "No buy position to sell")
         ELSE Goto(t, [l EXCEPT !.size = l.pos.quantity, !.pos = NullPos],
                   "place")

\* lines 1548-1617, after isFirstTrade returned `first`; `avail` is what
\* getBalance('USDT') (line 1539) returned
Sizing(t, l0, first, avail) ==
    LET l == [l0 EXCEPT !.first = IF first THEN "yes" ELSE "no",
                        !.avail = IF IsBuy(t) THEN avail ELSE NoVal] IN
    IF IsBuy(t)
    THEN IF first
         THEN IF Truthy(sig[t].initialQuantity)
              THEN Goto(t, [l EXCEPT !.size = sig[t].initialQuantity.n], "place")
              ELSE IF InsufficientFunds(avail, FirstBuyAmount(sig[t]))
              THEN Fail(t, "Insufficient USDT balance for trade")
              ELSE Goto(t, [l EXCEPT !.amount = FirstBuyAmount(sig[t]),
                                     !.size = FirstBuyAmount(sig[t])], "place")
         ELSE Goto(t, [l EXCEPT !.avail = NoVal], "tradingBal")
    ELSE IF first
         THEN IF Truthy(sig[t].initialQuantity)
              THEN Goto(t, [l EXCEPT !.size = sig[t].initialQuantity.n,
                                     !.pos = NullPos], "place")
              ELSE IF sig[t].recurringMode = S("am")
              THEN Fail(t, "Cannot sell on first trade for Am mode")
              ELSE IF l.pos = NullPos
              THEN Fail(t, "No buy position to sell")
              ELSE Goto(t, [l EXCEPT !.size = l.pos.quantity, !.pos = NullPos],
                        "place")
         ELSE IF l.pos = NullPos
              THEN Fail(t, "No buy position to sell")
              ELSE Goto(t, [l EXCEPT !.size = l.pos.quantity, !.pos = NullPos],
                        "place")

\* line 1016: isFirstTrade's read of the balance key; when it throws,
\* isFirstTrade returns true
FirstBalRead(t) ==
    /\ pc[t] = "firstBal"
    /\ \E ok \in RedisOutcomes, avail \in Availables :
         IF ok
         THEN Goto(t, [loc[t] EXCEPT !.hasBal = Has(balance, Key(t)),
                                     !.held = FALSE], "firstPos")
         ELSE Sizing(t, [loc[t] EXCEPT !.held = FALSE, !.fab = TRUE], TRUE,
                     avail)
    /\ NothingSent
    /\ asked' = FALSE
    /\ UNCHANGED aux
    /\ UNCHANGED <<position, balance, everWritten, cooldowns, cooldownBy, dailyTrades,
                   now, started, lastOk, lastSide, lastSell>>

\* line 1017: isFirstTrade's read of the position key, then the sizing
FirstPosRead(t) ==
    /\ pc[t] = "firstPos"
    /\ \E ok \in RedisOutcomes, avail \in Availables :
         Sizing(t, [loc[t] EXCEPT !.hasBal = FALSE, !.fab = @ \/ ~ok],
                IF ok THEN IsFirstTrade(loc[t].hasBal, Has(position, Key(t)))
                ELSE TRUE, avail)
    /\ NothingSent
    /\ asked' = FALSE
    /\ UNCHANGED aux
    /\ UNCHANGED <<position, balance, everWritten, cooldowns, cooldownBy, dailyTrades,
                   now, started, lastOk, lastSide, lastSell>>

\* lines 1575-1581: a subsequent buy's getTradingBalance and funds check
TradingBalRead(t) ==
    /\ pc[t] = "tradingBal"
    /\ \E ok \in RedisOutcomes, avail \in Availables :
         LET amount == GetTradingBalance(balance, Key(t), ok)
         IN  IF InsufficientFunds(avail, amount)
             THEN Fail(t, "Insufficient USDT balance for trade")
             ELSE Goto(t, [loc[t] EXCEPT !.amount = amount, !.size = amount,
                                         !.fab = @ \/ ~ok], "place")
    /\ NothingSent
    /\ asked' = FALSE
    /\ UNCHANGED aux
    /\ UNCHANGED <<position, balance, everWritten, cooldowns, cooldownBy, dailyTrades,
                   now, started, lastOk, lastSide, lastSell>>


\* a choice by orderType alone, against which the selection of the order
\* type is tried
OrderKindByType(sg) ==
    IF sg.orderType = S("limit") THEN "limit" ELSE "market"

\* lines 1622-1626: a limit order iff orderType is limit and a price is given
OrderKind(sg) ==
    IF sg.orderType = S("limit") /\ Truthy(sg.price) THEN "limit" ELSE "market"

SellBefore(key) == IF Has(lastSell, key) THEN lastSell[key] ELSE NoSell

SideBefore(key) == IF Has(lastSide, key) THEN lastSide[key] ELSE ""

\* lines 1620-1626: the order request reaches the exchange, which accepts it
\* (code "0") or not; placeMarketOrder/placeLimitOrder (lines 1119-1169)
\* return the order or null after that one request
PlaceOrder(t) ==
    /\ pc[t] = "place"
    /\ \E accepted \in OrderOutcomes :
         /\ sent' = [key |-> Key(t), side |-> Str(sig[t].action),
                     kind |-> OrderKind(sig[t]), size |-> loc[t].size,
                     accepted |-> accepted, prevSide |-> SideBefore(Key(t)),
                     after |-> IF IsBuy(t) THEN SellBefore(Key(t)) ELSE NoSell,
                     fab |-> loc[t].fab, algo |-> FALSE]
         /\ lastSide' = IF accepted THEN Put(lastSide, Key(t), Str(sig[t].action))
                        ELSE lastSide
         /\ Goto(t, [loc[t] EXCEPT !.ordId = IF accepted THEN 1 ELSE 0,
                                   !.first = "", !.fab = FALSE,
                                   !.avail = NoVal,
                                   !.nsub = @ + 1,
                                   !.placedAt = now], "placed")
    /\ lastSell' = IF IsBuy(t) THEN Del(lastSell, Key(t)) ELSE lastSell
    /\ asked' = TRUE
    /\ UNCHANGED aux
    /\ UNCHANGED <<position, balance, everWritten, cooldowns, cooldownBy, dailyTrades,
                   now, started, lastOk>>

\* ticker ? ticker.last : (price || 0)
PriceOr(ticker, price) ==
    IF ticker # NoVal THEN ticker
    ELSE IF Truthy(price) THEN price.n ELSE 0

\* lines 1639-1647: what the buy is recorded as.  The quotient is exact for
\* the amounts and prices of the model.
QuantityBought(sg, amount, price) ==
    IF Truthy(sg.initialQuantity) THEN sg.initialQuantity.n
    ELSE IF price > 0 THEN amount \div price ELSE 0

AmountSpent(sg, amount, price) ==
    IF Truthy(sg.initialQuantity) THEN sg.initialQuantity.n * price
    ELSE amount

\* lines 1665-1666: currentPrice * parseFloat(positionSize)
SellProceeds(price, size) == price * size

\* an order that was not accepted is submitted again, against which the
\* one-order property is tried
OrderFailedRetries(t) == Goto(t, loc[t], "place")

\* lines 1701-1703: the order call returned null
OrderFailed(t) == Fail(t, "Order execution failed")

\* a setCooldown outside `if (order)`, against which the account of what a
\* failure leaves behind is tried
CooldownAfterAnyOrder(t) == SetCooldown(cooldowns, CdKey(t), now)

\* lines 1628-1629: setCooldown runs only when the order call returned an
\* order
CooldownAfter(t) ==
    IF loc[t].ordId = 0 THEN cooldowns
    ELSE SetCooldown(cooldowns, CdKey(t), now)

\* lines 1628-1666 and 1701-1703: after the order call returned; setCooldown,
\* then getTicker and the figures of the bookkeeping
AfterOrder(t) ==
    /\ pc[t] = "placed"
    /\ cooldowns' = CooldownAfter(t)
    /\ IF loc[t].ordId = 0
       THEN /\ OrderFailed(t)
            /\ UNCHANGED cooldownBy
       ELSE /\ cooldownBy' = Put(cooldownBy, CdKey(t), Key(t))
            /\ \E ticker \in quotes :
                 LET price == PriceOr(ticker, sig[t].price)
                     l == [loc[t] EXCEPT !.setAt = now, !.price = price]
                 IN  IF IsBuy(t)
                     THEN Goto(t, [l EXCEPT
                                     !.qty = QuantityBought(sig[t], l.amount, price),
                                     !.spent = AmountSpent(sig[t], l.amount, price),
                                     !.amount = NoVal, !.size = NoVal],
                               "storeBuy")
                     ELSE Goto(t, [l EXCEPT !.proceeds = SellProceeds(price, l.size),
                                            !.size = NoVal, !.price = NoVal],
                               IF sig[t].recurringMode = S("am")
                               THEN "storeBal" ELSE "quPos")
    /\ NothingSent
    /\ asked' = (loc[t].ordId # 0)
    /\ UNCHANGED aux
    /\ UNCHANGED <<position, balance, everWritten, dailyTrades, now,
                   started, lastOk, lastSide, lastSell>>

\* a buy bookkeeping that also stores the amount spent as the trading
\* balance, against which the balance-isolation property is tried
StoreBuyAndBalance(t) ==
    /\ pc[t] = "storeBuy"
    /\ \E ok \in RedisOutcomes :
         /\ position' = StoreBuyOrder(position, Key(t), loc[t].qty, loc[t].price,
                                      loc[t].spent, loc[t].ordId, ok)
         /\ balance' = StoreTradingBalance(balance, Key(t), loc[t].spent, ok)
         /\ everWritten' = IF ok THEN everWritten \cup {Key(t)} ELSE everWritten
    /\ Succeed(t, loc[t])
    /\ NothingSent
    /\ asked' = FALSE
    /\ UNCHANGED aux
    /\ UNCHANGED <<cooldowns, cooldownBy, dailyTrades, now, started, lastSide, lastSell>>

\* lines 1649-1658 and 1686-1700: storeBuyOrder, whose result is not read,
\* then the success result
StoreBuy(t) ==
    /\ pc[t] = "storeBuy"
    /\ \E ok \in RedisOutcomes :
         /\ position' = StoreBuyOrder(position, Key(t), loc[t].qty, loc[t].price,
                                      loc[t].spent, loc[t].ordId, ok)
         /\ everWritten' = IF ok THEN everWritten \cup {Key(t)} ELSE everWritten
    /\ Succeed(t, loc[t])
    /\ NothingSent
    /\ asked' = FALSE
    /\ UNCHANGED aux
    /\ UNCHANGED <<balance, cooldowns, cooldownBy, dailyTrades, now, started, lastSide,
                   lastSell>>

\* lines 1673-1676: quantity mode reads the position again
QuantityPosRead(t) ==
    /\ pc[t] = "quPos"
    /\ \E ok \in RedisOutcomes :
         LET p == GetBuyPosition(position, Key(t), ok)
         IN  IF p # NullPos
             THEN Goto(t, [loc[t] EXCEPT !.pos = p], "storeBal")
             ELSE Goto(t, loc[t], "clear")
    /\ NothingSent
    /\ asked' = FALSE
    /\ UNCHANGED aux
    /\ UNCHANGED <<position, balance, everWritten, cooldowns, cooldownBy, dailyTrades,
                   now, started, lastOk, lastSide, lastSell>>

\* lines 1669-1679: what the sell stores as the next buy's amount
NextBalance(sg, l) ==
    IF sg.recurringMode = S("am") THEN l.proceeds ELSE l.pos.usdtSpent

\* lines 1671 and 1677: storeTradingBalance, whose result is not read
StoreBalance(t) ==
    /\ pc[t] = "storeBal"
    /\ \E ok \in RedisOutcomes :
         /\ balance' = StoreTradingBalance(balance, Key(t),
                                           NextBalance(sig[t], loc[t]), ok)
         /\ everWritten' = IF ok THEN everWritten \cup {Key(t)} ELSE everWritten
    /\ Goto(t, loc[t], "clear")
    /\ NothingSent
    /\ asked' = FALSE
    /\ UNCHANGED aux
    /\ UNCHANGED <<position, cooldowns, cooldownBy, dailyTrades, now, started,
                   lastOk, lastSide, lastSell>>

\* lines 1683-1700: clearBuyPosition, whose result is not read, then the
\* success result
ClearPosition(t) ==
    /\ pc[t] = "clear"
    /\ \E ok \in RedisOutcomes :
         /\ position' = ClearBuyPosition(position, Key(t), ok)
         /\ lastSell' = Put(lastSell, Key(t),
                [mode |-> Str(sig[t].recurringMode),
                 proceeds |-> loc[t].proceeds,
                 closed |-> IF ok /\ Has(position, Key(t))
                            THEN position[Key(t)].usdtSpent ELSE NoVal])
    /\ Succeed(t, loc[t])
    /\ NothingSent
    /\ asked' = FALSE
    /\ UNCHANGED aux
    /\ UNCHANGED <<balance, everWritten, cooldowns, cooldownBy, dailyTrades, now, started,
                   lastSide>>

\* time passes
Tick ==
    /\ now < MaxTime
    /\ now' = now + 1
    /\ NothingSent
    /\ asked' = FALSE
    /\ returned' = NoResult
    /\ UNCHANGED aux
    /\ UNCHANGED <<position, balance, everWritten, cooldowns, cooldownBy, dailyTrades,
                   pc, sig, loc, started, lastOk, lastSide, lastSell>>

Step(t) ==
    \/ CanBuyRead(t)
    \/ CanSellRead(t)
    \/ SellPosRead(t)
    \/ FirstBalRead(t)
    \/ FirstPosRead(t)
    \/ TradingBalRead(t)
    \/ PlaceOrder(t)
    \/ AfterOrder(t)
    \/ StoreBuy(t)
    \/ QuantityPosRead(t)
    \/ StoreBalance(t)
    \/ ClearPosition(t)

\* signals are handled by independent tasks, two of which may be in flight
Next == Tick \/ \E t \in Tasks : Start(t) \/ Step(t)

Spec == Init /\ [][Next]_vars

\* signals are processed one at a time
NextSequential == Tick \/ \E t \in Tasks : StartAlone(t) \/ Step(t)

\* the server after construction, before an exchange that quotes either price
InitSequential ==
    /\ InitServer
    /\ NoTradesYet
    /\ sltp = NoSltp
    /\ hook = NoHook
    /\ req = NoReq
    /\ redisFaults = TRUE
    /\ quotes = Tickers
    /\ symcheck = NoSymcheck
    /\ funds = NoFunds

SpecSequential == InitSequential /\ [][NextSequential]_vars

\* the server after construction, with a Redis whose commands all succeed
InitReliable ==
    /\ InitServer
    /\ NoTradesYet
    /\ sltp = NoSltp
    /\ hook = NoHook
    /\ req = NoReq
    /\ redisFaults = FALSE
    /\ quotes = Tickers
    /\ symcheck = NoSymcheck
    /\ funds = NoFunds

\* signals are processed one at a time and every ledger call succeeds
SpecReliable == InitReliable /\ [][NextSequential]_vars

(***************************************************************************)
(* The order type (src/index.js:1463-1476 and 1620-1626): alerts that give *)
(* no orderType, the N/A marker, market, limit in capitals or a type the   *)
(* exchange client does not place, with no price, a price of 0 or of 8.    *)
(***************************************************************************)
OrderTypeSignals ==
    { RawSignal(S(action), S("SOL-USDT"), S("SOL"), S("a"), S("1m"), S("qu"),
                orderType, price, U, U) :
        action \in {"buy", "sell"},
        orderType \in {U, S("N/A"), S("market"), S("LIMIT"), S("stop")},
        price \in {U, N(0), N(8)} }

StartOrderType(t) ==
    /\ \A u \in Tasks : pc[u] = "idle"
    /\ FreeSlot(t)
    /\ started < MaxSequential
    /\ \E raw \in OrderTypeSignals :
         Admit(t, Arrival(ObjectBody(raw), {"SOL-USDT"}, 0))

NextOrderType == Tick \/ \E t \in Tasks : StartOrderType(t) \/ Step(t)

SpecOrderType == InitReliable /\ [][NextOrderType]_vars

(***************************************************************************)
(* The daily trade counter (src/index.js:1418-1428) near its ceiling and   *)
(* across midnight.                                                        *)
(***************************************************************************)
\* the midnights that pass
MaxDays == 1

\* the first tick of the day after `time`
NextDay(time) == ((Today(time) + 1) * DayMs + TickMs - 1) \div TickMs

\* the server late in a day on which MAX_DAILY_TRADES - 1 signals passed the
\* daily-limit gate and were then turned down for insufficient funds, which
\* leaves the ledger and the cooldowns as they were
InitDaily ==
    /\ InitServer
    /\ dailyTrades = Put(EmptyMap, Today(1), MAX_DAILY_TRADES - 1)
    /\ sltp = NoSltp
    /\ hook = NoHook
    /\ req = NoReq
    /\ redisFaults = TRUE
    /\ quotes = Tickers
    /\ symcheck = NoSymcheck
    /\ funds = NoFunds

\* the calendar date changes
Midnight ==
    /\ Today(now) < MaxDays
    /\ now' = NextDay(now)
    /\ NothingSent
    /\ asked' = FALSE
    /\ returned' = NoResult
    /\ UNCHANGED aux
    /\ UNCHANGED <<position, balance, everWritten, cooldowns, cooldownBy, dailyTrades,
                   pc, sig, loc, started, lastOk, lastSide, lastSell>>

\* the alerts of the day: one strategy buying and selling
DailySignals ==
    { Alert("buy", "a", U, U, U), Alert("sell", "a", S("qu"), U, U) }

\* they name a listed instrument and their validation requests succeed
DailyArrivals ==
    { Arrival(ObjectBody(raw), {"SOL-USDT"}, 0) : raw \in DailySignals }

StartDaily(t) ==
    /\ FreeSlot(t)
    /\ started < MaxSignals
    /\ \E a \in DailyArrivals : Admit(t, a)

NextDaily == Midnight \/ \E t \in Tasks : StartDaily(t) \/ Step(t)

SpecDaily == InitDaily /\ [][NextDaily]_vars

(***************************************************************************)
(* From the webhook body to the strategy key: POST /webhook                *)
(* (src/index.js:1747-1764), processSignal's normalisation                 *)
(* (src/index.js:1433-1489) and getStrategyKey (src/index.js:894-896), for *)
(* two alerts of one strategy that differ in letter case and in format.    *)
(***************************************************************************)
Casings == {"lower", "upper", "title"}

\* a word of an alert as its author may have typed it
Cased(word, casing) ==
    CASE casing = "upper" ->
           (CASE word = "sol" -> "SOL"
              [] word = "sol-usdt" -> "SOL-USDT"
              [] word = "sol;usdt" -> "SOL;USDT"
              [] word = "a" -> "A"
              [] word = "b" -> "B"
              [] word = "1m" -> "1M"
              [] OTHER -> word)
      [] casing = "title" ->
           (CASE word = "sol" -> "Sol"
              [] word = "sol-usdt" -> "Sol-Usdt"
              [] word = "sol;usdt" -> "Sol;Usdt"
              [] word = "a" -> "A"
              [] word = "b" -> "B"
              [] word = "1m" -> "1M"
              [] OTHER -> word)
      [] OTHER -> word

\* the alert of strategy (sol, category, 1m) as a JSON object
JsonAlert(category, casing) ==
    RawSignal(S("buy"), S(Cased("sol-usdt", casing)), S(Cased("sol", casing)),
              S(Cased(category, casing)), S(Cased("1m", casing)),
              U, U, U, U, U)

\* the same alert as a text block, the pair written as `coinForm`
TextAlert(category, casing, coinForm) ==
    << <<"action", "buy">>, <<"coin", Cased(coinForm, casing)>>,
       <<"cat", Cased(category, casing)>>, <<"scat", Cased("1m", casing)>> >>

\* the bodies in which the alert of one strategy can arrive
AlertBodies(category) ==
    { ObjectBody(JsonAlert(category, c)) : c \in Casings }
    \cup { JsonBody(JsonAlert(category, c)) : c \in Casings }
    \cup { TextBody(TextAlert(category, c, f)) :
              c \in Casings, f \in {"sol", "sol;usdt", "sol-usdt"} }

InitWebhook ==
    /\ InitServer
    /\ NoTradesYet
    /\ sltp = NoSltp
    /\ req = NoReq
    /\ redisFaults = TRUE
    /\ quotes = Tickers
    /\ symcheck = NoSymcheck
    /\ funds = NoFunds
    /\ \E category \in {"a", "b"} :
         \E b1 \in AlertBodies(category), b2 \in AlertBodies(category) :
            hook = [NoHook EXCEPT !.pc = "received", !.bodies = <<b1, b2>>]

\* the handler turns each body into a signal
HookParse ==
    /\ hook.pc = "received"
    /\ hook' = [hook EXCEPT !.pc = "parsed",
                            !.signals = <<Webhook(hook.bodies[1]),
                                          Webhook(hook.bodies[2])>>]
    /\ UNCHANGED <<main, sltp, req, redisFaults, quotes, symcheck,
                 funds>>

\* processSignal normalises each signal
HookNormalize ==
    /\ hook.pc = "parsed"
    /\ hook' = [hook EXCEPT !.pc = "normalized",
                            !.normalized = <<Normalize(hook.signals[1]),
                                             Normalize(hook.signals[2])>>]
    /\ UNCHANGED <<main, sltp, req, redisFaults, quotes, symcheck,
                 funds>>

\* the outcome of the field checks; the ledger is addressed by
\* getStrategyKey(coin, category, subcategory), the cooldown map by the key
\* of isInCooldown(symbol, action, subcategory)
HookKey ==
    /\ hook.pc = "normalized"
    /\ hook' = [hook EXCEPT !.pc = "keyed",
                            !.checks = <<FieldCheck(hook.signals[1]),
                                         FieldCheck(hook.signals[2])>>,
                            !.keys = <<StrategyKeyOf(hook.normalized[1]),
                                       StrategyKeyOf(hook.normalized[2])>>,
                            !.cdKeys = <<CooldownKeyOf(hook.normalized[1]),
                                         CooldownKeyOf(hook.normalized[2])>>]
    /\ UNCHANGED <<main, sltp, req, redisFaults, quotes, symcheck,
                 funds>>

NextWebhook == HookParse \/ HookNormalize \/ HookKey

SpecWebhook == InitWebhook /\ [][NextWebhook]_vars

\* alerts that give every field
FullSignals ==
    { RawSignal(S(action), S("SOL-USDT"), S("SOL"), S("a"), S("1m"), S("qu"),
                S("limit"), N(8), N(64), N(2)) : action \in {"buy", "sell"} }

\* two alerts that differ in one field, which the first gives as the N/A
\* marker, in one of its spellings, and the second leaves out
InitMarker ==
    /\ InitServer
    /\ NoTradesYet
    /\ sltp = NoSltp
    /\ req = NoReq
    /\ redisFaults = TRUE
    /\ quotes = Tickers
    /\ symcheck = NoSymcheck
    /\ funds = NoFunds
    /\ \E raw \in FullSignals, f \in DOMAIN NoFields,
            m \in {"N/A", "n/a", "N/a"} :
         hook = [NoHook EXCEPT !.pc = "received",
                               !.bodies = <<ObjectBody([raw EXCEPT ![f] = S(m)]),
                                            ObjectBody([raw EXCEPT ![f] = U])>>]

SpecMarker == InitMarker /\ [][NextWebhook]_vars

(***************************************************************************)
(* OKXClient.sign and OKXClient.request (src/index.js:1047-1092).  An      *)
(* object is the sequence of its <<key, value>> entries; `given` tells an  *)
(* object from null.                                                       *)
(***************************************************************************)
BASE_URL == "https://www.okx.com"

Null == [given |-> FALSE, entries |-> <<>>]
Obj(entries) == [given |-> TRUE, entries |-> entries]

\* new URLSearchParams(params).toString(); the values of the model need no
\* percent-encoding
RECURSIVE QueryString(_, _)
QueryString(entries, i) ==
    IF i > Len(entries) THEN ""
    ELSE entries[i][1] \o "=" \o entries[i][2]
         \o (IF i < Len(entries) THEN "&" ELSE "")
         \o QueryString(entries, i + 1)

\* JSON.stringify(body) for an object of string values
RECURSIVE Members(_, _)
Members(entries, i) ==
    IF i > Len(entries) THEN ""
    ELSE "\"" \o entries[i][1] \o "\":\"" \o entries[i][2] \o "\""
         \o (IF i < Len(entries) THEN "," ELSE "")
         \o Members(entries, i + 1)

Stringify(body) == "{" \o Members(body.entries, 1) \o "}"

\* a message with the method before the timestamp, against which the
\* signing property is tried
MessageMethodFirst(timestamp, method, path, body) ==
    method \o timestamp \o path \o body

\* sign: const message = timestamp + method + path + body
Message(timestamp, method, path, body) ==
    timestamp \o method \o path \o body

\* new Date().toISOString()
Timestamps == {"2024-05-01T23:59:59.999Z", "2024-05-02T00:00:00.000Z"}

\* the calls the client makes: getBalance, getTicker, getPositions,
\* validateSymbol, placeMarketOrder, placeLimitOrder, the stop order
Calls ==
    { <<"GET", "/api/v5/account/balance", Null, Null>>,
      <<"GET", "/api/v5/market/ticker", Obj(<< <<"instId", "SOL-USDT">> >>), Null>>,
      <<"GET", "/api/v5/account/positions", Obj(<<>>), Null>>,
      <<"GET", "/api/v5/account/positions", Obj(<< <<"instId", "SOL-USDT">> >>), Null>> }
    \cup { <<"GET", "/api/v5/public/instruments",
             Obj(<< <<"instType", "SPOT">>, <<"instId", id>> >>), Null>> :
              id \in {"SOL-USDT", "SOLUSDT", "SOL_USDT", "SOL-USD"} }
    \cup { <<"POST", "/api/v5/trade/order", Null,
             Obj(<< <<"instId", "SOL-USDT">>, <<"tdMode", "cash">>,
                    <<"side", side>>, <<"ordType", "market">>,
                    <<"sz", ToString(sz)>> >>)>> :
              side \in {"buy", "sell"}, sz \in {10, 64, 1000} }
    \cup { <<"POST", "/api/v5/trade/order", Null,
             Obj(<< <<"instId", "SOL-USDT">>, <<"tdMode", "cash">>,
                    <<"side", "buy">>, <<"ordType", "limit">>,
                    <<"sz", "2">>, <<"px", "64">> >>)>>,
           <<"POST", "/api/v5/trade/order-algo", Null,
             Obj(<< <<"instId", "SOL-USDT">>, <<"tdMode", "cash">>,
                    <<"side", "sell">>, <<"ordType", "conditional">>,
                    <<"sz", "10">>, <<"slTriggerPx", "0.9800">>,
                    <<"slOrdPx", "-1">> >>)>> }

InitRequest ==
    /\ InitServer
    /\ NoTradesYet
    /\ sltp = NoSltp
    /\ hook = NoHook
    /\ redisFaults = TRUE
    /\ quotes = Tickers
    /\ symcheck = NoSymcheck
    /\ funds = NoFunds
    /\ \E call \in Calls :
         req = [NoReq EXCEPT !.pc = "called", !.method = call[1],
                             !.path = call[2], !.params = call[3],
                             !.body = call[4]]

\* const timestamp = new Date().toISOString(); let url = this.baseURL + path
ReqTimestamp ==
    /\ req.pc = "called"
    /\ \E timestamp \in Timestamps :
         req' = [req EXCEPT !.pc = "stamped", !.timestamp = timestamp,
                            !.url = BASE_URL \o req.path,
                            !.signedPath = req.path]
    /\ UNCHANGED <<main, sltp, hook, redisFaults, quotes, symcheck,
                 funds>>

\* lines 1060-1066: a GET with parameters carries them in the url and in
\* the path that is signed
ReqQuery ==
    /\ req.pc = "stamped"
    /\ LET queryString == QueryString(req.params.entries, 1)
       IN  req' = IF req.method = "GET" /\ req.params.given /\ queryString # ""
                  THEN [req EXCEPT !.pc = "query",
                                   !.url = @ \o "?" \o queryString,
                                   !.signedPath = @ \o "?" \o queryString]
                  ELSE [req EXCEPT !.pc = "query"]
    /\ UNCHANGED <<main, sltp, hook, redisFaults, quotes, symcheck,
                 funds>>

\* lines 1068-1069: the body is serialised and the message signed
ReqSign ==
    /\ req.pc = "query"
    /\ LET bodyStr == IF req.body.given THEN Stringify(req.body) ELSE ""
       IN  req' = [req EXCEPT !.pc = "signed", !.bodyStr = bodyStr,
                              !.message = Message(req.timestamp, req.method,
                                                  req.signedPath, bodyStr)]
    /\ UNCHANGED <<main, sltp, hook, redisFaults, quotes, symcheck,
                 funds>>

\* lines 1071-1086: the headers and the axios call
ReqSend ==
    /\ req.pc = "signed"
    /\ req' = [req EXCEPT !.pc = "sent",
                          !.sent = [method |-> req.method, url |-> req.url,
                                    timestamp |-> req.timestamp,
                                    signed |-> req.message,
                                    hasData |-> req.body.given,
                                    data |-> IF req.body.given
                                             THEN req.bodyStr ELSE ""]]
    /\ UNCHANGED <<main, sltp, hook, redisFaults, quotes, symcheck,
                 funds>>

NextRequest == ReqTimestamp \/ ReqQuery \/ ReqSign \/ ReqSend

SpecRequest == InitRequest /\ [][NextRequest]_vars

(***************************************************************************)
(* placeOrderWithSLTP (src/index.js:1172-1216) and the single-coin         *)
(* processSignal that calls it (src/index.js:534-593).                     *)
(***************************************************************************)
STOP_LOSS_PERCENTAGE == 2

\* the sizes the single-coin handler passes as `amount`
SltpAmounts == {10, 64, 1000}

\* what POST /api/v5/trade/order-algo does: the exchange accepts the stop
\* order, answers with an error code, or the request throws
StopOutcomes == {"ok", "rejected", "throws"}

\* ticker.last in placeOrderWithSLTP, in millionths of the quote unit
\* (0.00004, 0.0001, 1 and 2), or NoVal: getTicker returned null
SltpTickers == {NoVal, 40, 100, 1000000, 2000000}

\* slPrice, in hundredths of the unit of currentPrice
SlPrice(side, currentPrice, stopLoss) ==
    IF side = "buy" THEN currentPrice * (100 - stopLoss)
    ELSE currentPrice * (100 + stopLoss)

\* slPrice.toFixed(4): the nearest number of ten-thousandths of the quote
\* unit, the larger one of two that are equally near; slPrice is in hundredths
\* of millionths
ToFixed4(slPrice) == (slPrice + 5000) \div 10000

\* the stop-loss order built from the primary order; slTriggerPx is in
\* ten-thousandths of the quote unit
SlOrder(side, amount, slPrice) ==
    [side |-> IF side = "buy" THEN "sell" ELSE "buy", ordType |-> "conditional",
     sz |-> ToString(amount), slTriggerPx |-> ToFixed4(slPrice)]

\* the catch block of placeOrderWithSLTP: return null
SltpCaught(mainOrder) == 0

InitSLTP ==
    /\ InitServer
    /\ NoTradesYet
    /\ \E side \in {"buy", "sell"}, amount \in SltpAmounts :
         sltp = [NoSltp EXCEPT !.pc = "main", !.side = side, !.amount = amount]
    /\ hook = NoHook
    /\ req = NoReq
    /\ redisFaults = TRUE
    /\ quotes = Tickers
    /\ symcheck = NoSymcheck
    /\ funds = NoFunds

\* const mainOrder = await this.placeMarketOrder(...); if (!mainOrder) return null
SltpMainOrder ==
    /\ sltp.pc = "main"
    /\ \E accepted \in OrderOutcomes :
         sltp' = IF accepted
                 THEN [sltp EXCEPT !.pc = "ticker", !.mainOrder = 1]
                 ELSE [sltp EXCEPT !.pc = "returned", !.result = 0]
    /\ UNCHANGED <<main, hook, req, redisFaults, quotes, symcheck,
                 funds>>

\* const ticker = await this.getTicker(symbol); if (!ticker) return mainOrder
SltpTicker ==
    /\ sltp.pc = "ticker"
    /\ \E ticker \in SltpTickers :
         sltp' = IF ticker = NoVal
                 THEN [sltp EXCEPT !.pc = "returned", !.result = sltp.mainOrder]
                 ELSE [sltp EXCEPT !.pc = "stop", !.last = ticker,
                                   !.slOrder = SlOrder(sltp.side, sltp.amount,
                                       SlPrice(sltp.side, ticker,
                                               STOP_LOSS_PERCENTAGE))]
    /\ UNCHANGED <<main, hook, req, redisFaults, quotes, symcheck,
                 funds>>

\* await this.request('POST', '/api/v5/trade/order-algo', null, slOrder);
\* return mainOrder
SltpStopOrder ==
    /\ sltp.pc = "stop"
    /\ \E outcome \in StopOutcomes :
         sltp' = [sltp EXCEPT !.pc = "returned", !.stop = outcome,
                              !.result = IF outcome = "throws"
                                         THEN SltpCaught(sltp.mainOrder)
                                         ELSE sltp.mainOrder]
    /\ UNCHANGED <<main, hook, req, redisFaults, quotes, symcheck,
                 funds>>

\* if (order) { setCooldown; bookkeeping; success } else { failure }
SltpCaller ==
    /\ sltp.pc = "returned"
    /\ sltp' = IF sltp.result # 0
               THEN [sltp EXCEPT !.pc = "done", !.caller = "success",
                                 !.cooldown = TRUE]
               ELSE [sltp EXCEPT !.pc = "done",
                                 !.caller = "Order execution failed"]
    /\ UNCHANGED <<main, hook, req, redisFaults, quotes, symcheck,
                 funds>>

NextSLTP == SltpMainOrder \/ SltpTicker \/ SltpStopOrder \/ SltpCaller

SpecSLTP == InitSLTP /\ [][NextSLTP]_vars

(***************************************************************************)
(* validateSymbol (src/index.js:1255-1296), one request per step, and the  *)
(* processSignal that awaits it (src/index.js:1505-1509) and later places  *)
(* the order (src/index.js:1620-1626).                                     *)
(***************************************************************************)
\* the symbols of the signals: with a separator and the USDT quote, without
\* a separator, with the USD quote
CheckedSymbols == {"SOL-USDT", "SOLUSDT", "SOL-USD"}

\* the instrument ids the exchange may list
Instruments == {"SOL-USDT", "SOLUSDT", "SOL_USDT", "SOL-USD"}

\* which of the lookups throws (0: none)
LookupFailures == 0..4

InitSymcheck ==
    /\ InitServer
    /\ NoTradesYet
    /\ sltp = NoSltp
    /\ hook = NoHook
    /\ req = NoReq
    /\ redisFaults = TRUE
    /\ quotes = Tickers
    /\ \E symbol \in CheckedSymbols, listed \in SUBSET Instruments,
          failAt \in LookupFailures :
         symcheck = [NoSymcheck EXCEPT !.pc = "lookup", !.symbol = symbol,
                                       !.listed = listed, !.failAt = failAt]
    /\ funds = NoFunds

\* lines 1258-1285: one request for the instrument; a request that throws
\* ends in the catch block (return false), a hit returns true, a miss goes
\* on to the next alternative and after the last one returns false
SymLookup ==
    /\ symcheck.pc = "lookup"
    /\ LET reqs == Lookups(symcheck.symbol)
           i == Len(symcheck.asked) + 1
           made == Append(symcheck.asked, reqs[i])
       IN  symcheck' =
             IF symcheck.failAt = i
             THEN [symcheck EXCEPT !.asked = made, !.pc = "returned",
                                   !.result = FALSE]
             ELSE IF reqs[i] \in symcheck.listed
             THEN [symcheck EXCEPT !.asked = made, !.pc = "returned",
                                   !.result = TRUE, !.confirmed = reqs[i]]
             ELSE IF i = Len(reqs)
             THEN [symcheck EXCEPT !.asked = made, !.pc = "returned",
                                   !.result = FALSE]
             ELSE [symcheck EXCEPT !.asked = made]
    /\ UNCHANGED <<main, sltp, hook, req, redisFaults, quotes, funds>>

\* lines 1505-1509: if (!symbolValid) return { success: false, error }
SymCaller ==
    /\ symcheck.pc = "returned"
    /\ symcheck' = IF symcheck.result
                   THEN [symcheck EXCEPT !.pc = "admitted"]
                   ELSE [symcheck EXCEPT !.pc = "done",
                           !.caller = "Symbol not available on OKX"]
    /\ UNCHANGED <<main, sltp, hook, req, redisFaults, quotes, funds>>

\* lines 1620-1626, when the handler reaches them: the order call is given
\* `symbol`, which is not assigned after line 1488
SymOrder ==
    /\ symcheck.pc = "admitted"
    /\ symcheck' = [symcheck EXCEPT !.pc = "done", !.instId = symcheck.symbol]
    /\ UNCHANGED <<main, sltp, hook, req, redisFaults, quotes, funds>>

NextSymcheck == SymLookup \/ SymCaller \/ SymOrder

SpecSymcheck == InitSymcheck /\ [][NextSymcheck]_vars

(***************************************************************************)
(* The funds check of a buy (src/index.js:1538-1582) and its order         *)
(* (src/index.js:1620-1626), for two buy signals whose handlers run        *)
(* between each other's awaits, against one exchange account.              *)
(***************************************************************************)
\* the account's available USDT when the signals arrive
ExchangeUsdt == {0, 1000, 1500, 2000}

\* tradingAmount: initialAmount, the default amount or the stored trading
\* balance, whichever of lines 1554-1574 applies
FundsAmounts == {600, BUY_AMOUNT_USDT}

InitFunds ==
    /\ InitServer
    /\ NoTradesYet
    /\ sltp = NoSltp
    /\ hook = NoHook
    /\ req = NoReq
    /\ redisFaults = TRUE
    /\ quotes = Tickers
    /\ symcheck = NoSymcheck
    /\ \E usdt \in ExchangeUsdt,
          amount \in [Tasks -> FundsAmounts],
          category \in [Tasks -> {"a", "b"}] :
         funds = [NoFunds EXCEPT
                    !.usdt = usdt,
                    !.buyer = [t \in Tasks |->
                                 [NoBuyer EXCEPT !.pc = "balance",
                                                 !.category = category[t],
                                                 !.tradingAmount = amount[t]]]]

\* line 1539 and getBalance (lines 1094-1115): the account's availBal, or
\* null when the request fails
FundsGetBalance(t) ==
    /\ funds.buyer[t].pc = "balance"
    /\ \E ok \in BOOLEAN :
         funds' = [funds EXCEPT
                     !.buyer[t].pc = "sizing",
                     !.buyer[t].balance = IF ok THEN funds.usdt ELSE NoVal]
    /\ UNCHANGED <<main, sltp, hook, req, redisFaults, quotes, symcheck>>

\* lines 1545-1582, the amount cases: the check is made on the balance that
\* line 1539 returned
FundsSizing(t) ==
    /\ funds.buyer[t].pc = "sizing"
    /\ funds' =
         IF InsufficientFunds(funds.buyer[t].balance,
                              funds.buyer[t].tradingAmount)
         THEN [funds EXCEPT
                 !.buyer[t].pc = "done",
                 !.buyer[t].error = "Insufficient USDT balance for trade"]
         ELSE [funds EXCEPT !.buyer[t].pc = "order"]
    /\ UNCHANGED <<main, sltp, hook, req, redisFaults, quotes, symcheck>>

\* lines 1620-1626: the order is submitted; the exchange fills it from the
\* account's USDT when that suffices and rejects it otherwise
FundsSubmit(t) ==
    /\ funds.buyer[t].pc = "order"
    /\ LET amount == funds.buyer[t].tradingAmount
       IN  funds' = [funds EXCEPT
                       !.buyer[t].pc = "done",
                       !.submitted = [by |-> t, amount |-> amount,
                                      available |-> funds.usdt],
                       !.usdt = IF funds.usdt >= amount
                                THEN funds.usdt - amount
                                ELSE funds.usdt]
    /\ UNCHANGED <<main, sltp, hook, req, redisFaults, quotes, symcheck>>

NextFunds ==
    \E t \in Tasks : FundsGetBalance(t) \/ FundsSizing(t) \/ FundsSubmit(t)

SpecFunds == InitFunds /\ [][NextFunds]_vars

(***************************************************************************)
(* Properties.                                                             *)
(***************************************************************************)
InWindow(earlier, later) == (later - earlier) * TickMs < COOLDOWN_SECONDS * 1000

\* C1: no double-open.  A buy order the exchange accepts for a strategy key
\* is never preceded, as that key's last accepted order, by another buy:
\* between two buys for one key there is a sell.
C1_NoDoubleOpen ==
    (sent.side = "buy" /\ sent.accepted) => sent.prevSide # "buy"

\* C2: eligibility gate.  A buy whose key held a position when canBuy read
\* the ledger, and a sell whose key held none when canSell read it, are found
\* ineligible; only eligible signals get past the gate.
C2_EligibilityGate ==
    \A t \in Tasks :
        /\ (pc[t] = "canSell" /\ IsBuy(t) /\ loc[t].held) => ~loc[t].eligible
        /\ pc[t] = "sellPos" => loc[t].held
        /\ pc[t] \notin {"idle", "canBuy", "canSell"} => loc[t].eligible

\* C3: cooldown idempotence.  A signal that arrives after an identical signal
\* was executed, and returns less than COOLDOWN_SECONDS after that execution
\* set the cooldown, returns a failure and has submitted no order.
C3_CooldownIdempotence ==
    (returned.res # "none" /\ returned.prevOk # 0
        /\ InWindow(returned.prevOk, now))
    => (returned.res = "failure" /\ returned.nsub = 0)

C3_Replayed ==
    /\ returned.err = "Signal in cooldown period"
    /\ returned.prevOk # 0
    /\ InWindow(returned.prevOk, now)

\* C4: back-to-back duplicate buys.  No two buy signals for one symbol,
\* subcategory and key both hold an accepted order placed less than
\* COOLDOWN_SECONDS apart.
C4_OneBuyPerWindow ==
    \A t, u \in Tasks :
        (/\ t # u
         /\ IsBuy(t) /\ IsBuy(u)
         /\ Identity(sig[t]) = Identity(sig[u])
         /\ loc[t].ordId # 0 /\ loc[u].ordId # 0
         /\ loc[t].placedAt <= loc[u].placedAt)
        => ~InWindow(loc[t].placedAt, loc[u].placedAt)

\* C5: amount-mode compounding.  The first buy order submitted for a key
\* after a successful amount-mode sell has, as its size, that sell's
\* proceeds.
C5_AmountCompounding ==
    (sent.side = "buy" /\ sent.after.mode = "am")
    => sent.size = sent.after.proceeds

\* C6: quantity-mode recycling.  The first buy order submitted for a key
\* after a successful quantity-mode sell has, as its size, the usdtSpent of
\* the position that sell closed.
C6_QuantityRecycling ==
    (sent.side = "buy" /\ sent.after.mode = "qu" /\ sent.after.closed # NoVal)
    => sent.size = sent.after.closed

\* C7: isFirstTrade round trip.  With one signal processed at a time,
\* isFirstTrade returns true only for a key the ledger holds neither a
\* position nor a balance for, and false only for a key that was written.
C7_FirstTradeRoundTrip ==
    \A t \in Tasks :
        /\ loc[t].first = "yes"
              => ~(Has(balance, Key(t)) \/ Has(position, Key(t)))
        /\ loc[t].first = "no" => Key(t) \in everWritten

\* C8: isFirstTrade is monotone.  Once a ledger write has succeeded for a
\* key, isFirstTrade is false for it in every later state.
C8_FirstTradeMonotone ==
    \A k \in everWritten : ~IsFirstTrade(Has(balance, k), Has(position, k))

\* C9: a buy never writes the trading balance.  Every step that changes a
\* trading balance is the storeTradingBalance of a sell whose order the
\* exchange accepted.
C9_BuyLeavesBalance ==
    [][balance' # balance =>
         \E t \in Tasks : /\ IsSell(t)
                          /\ pc[t] = "storeBal"
                          /\ loc[t].ordId # 0]_vars

C9_BuyCompleted ==
    /\ returned.side = "buy"
    /\ returned.res = "success"
    /\ Has(position, returned.key)
    /\ ~Has(balance, returned.key)

\* C10: structured result always.  Whatever the signal and whichever
\* exchange or ledger call fails, processSignal never stops between two
\* suspension points, and what it returns is a success, or a failure with
\* an error string; no exception reaches the caller.
C10_StructuredResult ==
    /\ \A t \in Tasks : pc[t] # "idle" => ENABLED Step(t)
    /\ returned # NoResult =>
          /\ returned.res \in {"success", "failure"}
          /\ returned.res = "failure" => returned.err # ""

C10_ThrownInside ==
    /\ returned.res = "failure"
    /\ returned.err = "TypeError"

\* C11: a failure to attach the protective stop order is not a failure of
\* the primary order: whenever the exchange accepted the primary order,
\* placeOrderWithSLTP hands that order back and its caller reports success
C11_ProtectiveFailureKeepsPrimary ==
    (sltp.pc \in {"returned", "done"} /\ sltp.mainOrder # 0)
        => /\ sltp.result = sltp.mainOrder
           /\ sltp.pc = "done" => sltp.caller = "success"

\* C12: no order is submitted on the strength of a value that stood in for
\* a ledger read that failed: every order sent comes from an invocation all
\* of whose ledger reads succeeded
C12_NoFabricatedLedgerState == sent.side # "" => ~sent.fab

C14_CountsExecutedTrades == returned.counted => returned.res = "success"

\* C15: strategies do not interfere through cooldowns: a signal is turned
\* down with 'Signal in cooldown period' only when the cooldown entry that
\* stops it was set by an execution of its own strategy key
C15_CooldownOfOwnStrategy ==
    returned.err = "Signal in cooldown period"
        => /\ Has(cooldownBy, returned.cdKey)
           /\ cooldownBy[returned.cdKey] = returned.key

\* C16: an invocation of processSignal submits at most one primary order:
\* no task has sent more than one, and none was sent by an invocation that
\* had sent one before
C16_AtMostOneOrder ==
    /\ \A t \in Tasks : loc[t].nsub <= 1
    /\ returned.nsub <= 1

\* the exchange turned the order down and the invocation returned the
\* failure without submitting again
C16_FailedPlacementReturned ==
    /\ returned.err = "Order execution failed"
    /\ returned.nsub = 1

\* two tasks work on the same strategy key and the same side
Racing(t, u) ==
    /\ t # u
    /\ pc[t] # "idle" /\ pc[u] # "idle"
    /\ Key(t) = Key(u)
    /\ sig[t].action = sig[u].action

\* C17: the check-then-write race.  Two signals for one strategy key and
\* one side that are both past the gates have both passed the eligibility
\* check, each on its own read of the ledger: the second order is not sent
\* around the check but through it, before the first task's ledger write
C17_RacersPassedTheCheck ==
    \A t, u \in Tasks :
        (Racing(t, u) /\ PastGates(t) /\ PastGates(u))
            => loc[t].eligible /\ loc[u].eligible

\* two buys for one strategy key passed the check, the exchange has
\* accepted both orders, and no position was ever written for the key: the
\* second buy read the ledger before the first one's write
C17_BothOrdersAccepted ==
    \E t, u \in Tasks :
        /\ Racing(t, u)
        /\ IsBuy(t)
        /\ loc[t].ordId # 0 /\ loc[u].ordId # 0
        /\ loc[t].eligible /\ loc[u].eligible
        /\ ~Has(position, Key(t))
        /\ Key(t) \notin everWritten

\* C18: malformed signals never trade.  An invocation whose signal names
\* no action of buy or sell, or no coin, or no symbol, returns a failure in
\* a step that makes no request to the exchange, sends no order and leaves
\* the ledger, the cooldowns and the daily counter as they were
C18_MalformedNeverTrade ==
    [][(returned'.res # "none" /\ returned'.malformed)
        => /\ returned'.res = "failure"
           /\ returned'.nsub = 0
           /\ ~returned'.counted
           /\ asked' = FALSE
           /\ sent' = NoOrder
           /\ UNCHANGED <<position, balance, cooldowns, dailyTrades>>]_vars

\* a text block without a coin line was turned down while the ledger held
\* a position and a cooldown was set
C18_TextBlockTurnedDown ==
    /\ returned.malformed
    /\ returned.src = "text"
    /\ returned.err = "Missing coin or symbol information"
    /\ position # EmptyMap
    /\ cooldowns # EmptyMap

\* C19: the strategy key is independent of casing and format.  Two alerts
\* of one strategy, whose coin, category and subcategory differ only in
\* letter case or which arrive one as JSON and one as text block, pass the
\* field checks and are mapped to the same strategy key
C19_KeyIndependentOfCasingAndFormat ==
    /\ hook.pc = "parsed"
         => \A i \in {1, 2} : FieldCheck(hook.signals[i]) = "ok"
    /\ hook.pc = "keyed" => hook.keys[1] = hook.keys[2]

\* a JSON object in lower case and a text block in upper case that names
\* the pair with a semicolon have been mapped to the key of strategy a
C19_JsonAndTextKeyed ==
    /\ hook.pc = "keyed"
    /\ hook.bodies[1] = ObjectBody(JsonAlert("a", "lower"))
    /\ hook.bodies[2] = TextBody(TextAlert("a", "upper", "sol;usdt"))
    /\ hook.keys[2] = <<"SOL", "a", "1m">>

\* the query that the url of a call must carry
HasQuery(r) == r.method = "GET" /\ r.params.given /\ Len(r.params.entries) > 0

\* C20: request signing.  For every request sent, the signed message is the
\* timestamp of the OK-ACCESS-TIMESTAMP header, the method, the path that
\* follows the base URL in the url requested, with '?' and the query string
\* when the call has query parameters, and the body string sent, which is
\* the empty string when the call has no body
C20_SignedMessage ==
    req.pc = "sent"
        => LET requestPath ==
                   IF HasQuery(req)
                   THEN req.path \o "?" \o QueryString(req.params.entries, 1)
                   ELSE req.path
           IN  /\ req.sent.url = BASE_URL \o requestPath
               /\ req.sent.hasData = req.body.given
               /\ req.sent.hasData => req.sent.data = Stringify(req.body)
               /\ req.sent.signed =
                      req.sent.timestamp \o req.sent.method \o requestPath
                      \o (IF req.sent.hasData THEN req.sent.data ELSE "")

\* a GET with two query parameters has been sent
C20_QuerySigned ==
    /\ req.pc = "sent"
    /\ req.sent.signed = "2024-05-02T00:00:00.000Z" \o "GET"
          \o "/api/v5/public/instruments?instType=SPOT&instId=SOL-USDT"
    /\ req.sent.url =
          "https://www.okx.com/api/v5/public/instruments?instType=SPOT&instId=SOL-USDT"

\* C21: per-key alternation.  When signals are processed one at a time and
\* every ledger call succeeds, the orders the exchange accepts for a
\* strategy key alternate, starting with a buy: an accepted buy follows no
\* order or a sell, an accepted sell follows a buy; and every success
\* returned is that of the key's last accepted order
C21_PerKeyAlternation ==
    /\ sent.accepted =>
          \/ sent.side = "buy" /\ sent.prevSide \in {"", "sell"}
          \/ sent.side = "sell" /\ sent.prevSide = "buy"
    /\ returned.res = "success" => SideBefore(returned.key) = returned.side

\* a key was bought, sold and is bought again
C21_BoughtSoldBoughtAgain ==
    /\ sent.accepted
    /\ sent.side = "buy"
    /\ sent.prevSide = "sell"
    /\ Has(balance, sent.key)

\* C22: ledger bookkeeping on success.  When an invocation returns success
\* for a buy, the ledger then holds for its key an active position with the
\* order's id, usdtSpent the amount spent and, the ticker price being known,
\* quantity the amount spent divided by that price; when it returns success
\* for a sell, the ledger then holds no position for its key
C22_LedgerBookkeeping ==
    [][\A t \in Tasks :
         (pc[t] # "idle" /\ pc'[t] = "idle" /\ returned'.res = "success")
         => IF IsBuy(t)
            THEN /\ Has(position', Key(t))
                 /\ position'[Key(t)].status = "active"
                 /\ position'[Key(t)].orderId = loc[t].ordId
                 /\ position'[Key(t)].usdtSpent = loc[t].spent
                 /\ loc[t].price > 0
                      => position'[Key(t)].quantity
                           = loc[t].spent \div loc[t].price
            ELSE ~Has(position', Key(t))]_vars

\* C23: failure leaves the trading state unchanged.  The step in which an
\* invocation returns a failure changes no position, no trading balance and
\* no cooldown entry, and the invocation holds no accepted order, so that it
\* made no change before either: every step that changes a position or a
\* trading balance, and every step that sets a cooldown, belongs to an
\* invocation whose order the exchange accepted
C23_FailureLeavesState ==
    [][/\ returned'.res = "failure"
          => /\ UNCHANGED <<position, balance, cooldowns>>
             /\ \A t \in Tasks :
                  (pc[t] # "idle" /\ pc'[t] = "idle") => loc[t].ordId = 0
       /\ (position' # position \/ balance' # balance)
          => \E t \in Tasks : /\ loc[t].ordId # 0
                               /\ pc[t] \in {"storeBuy", "storeBal", "clear"}
       /\ cooldowns' # cooldowns
          => \E t \in Tasks : loc[t].ordId # 0 /\ pc[t] = "placed"]_vars

\* the exchange turned an order down while the ledger held a position and
\* a trading balance and a cooldown was set
C23_RefusedOrderLeftState ==
    /\ returned.err = "Order execution failed"
    /\ position # EmptyMap
    /\ balance # EmptyMap
    /\ cooldowns # EmptyMap

\* the errors of the gates before the daily limit
EarlyErrors ==
    {"Invalid or missing action", "Symbol not available on OKX",
     "Already have active position", "No active position to sell",
     "Signal in cooldown period"}

\* what canBuy or canSell answers a task from the ledger as it is
Eligible(t) ==
    IF IsBuy(t) THEN CanBuy(GetBuyPosition(position, Key(t), TRUE))
    ELSE CanSell(GetBuyPosition(position, Key(t), TRUE))

\* C24: the order of the gates.  An invalid action is turned down before
\* the instrument is looked up; an unknown instrument before the ledger is
\* read; a signal in the wrong state before the cooldown is looked at; the
\* daily counter is touched only for a signal that is eligible and out of
\* cooldown; so a signal turned down for its action, its instrument, its
\* state or the cooldown leaves the daily counter as it was
C24_GateOrder ==
    [][/\ returned'.err = "Invalid or missing action" => ~asked'
       /\ returned'.err = "Symbol not available on OKX"
          => /\ returned'.side \in {"buy", "sell"}
             /\ \A t \in Tasks : pc'[t] = pc[t]
       /\ \A t \in Tasks :
            (pc[t] # "idle" /\ pc'[t] = "idle"
                /\ returned'.err = "Signal in cooldown period")
            => IF IsBuy(t) THEN loc[t].eligible ELSE Eligible(t)
       /\ dailyTrades' # dailyTrades
          => \E t \in Tasks :
                /\ pc[t] = "canSell" /\ pc'[t] \in {"firstBal", "sellPos"}
                /\ IF IsBuy(t) THEN loc[t].eligible ELSE Eligible(t)
                /\ ~IsInCooldown(cooldowns, CdKey(t), now)
       /\ returned'.err \in EarlyErrors
          => ~returned'.counted /\ UNCHANGED dailyTrades]_vars

\* a buy that arrives while its key holds a position and its cooldown runs
\* is turned down for the position, and the counter stands at the one
\* signal that was executed
C24_StateBeforeCooldown ==
    /\ returned.err = "Already have active position"
    /\ IsInCooldown(cooldowns, returned.cdKey, now)
    /\ Has(position, returned.key)
    /\ TradesToday(dailyTrades, now) = 1

\* C25: first-trade buy sizing.  The order of a buy for which isFirstTrade
\* returned true is for initialQuantity when the signal gives one, else for
\* initialAmount when it gives one, else for BUY_AMOUNT_USDT; and in the two
\* amount cases it is sent only when the available USDT is known and not
\* below the amount
C25_FirstBuySizing ==
    [][\A t \in Tasks :
         (pc[t] = "place" /\ pc'[t] = "placed" /\ IsBuy(t)
             /\ loc[t].first = "yes")
         => /\ sent'.side = "buy"
            /\ sent'.size =
                 (IF Truthy(sig[t].initialQuantity)
                  THEN sig[t].initialQuantity.n
                  ELSE IF Truthy(sig[t].initialAmount)
                  THEN sig[t].initialAmount.n
                  ELSE BUY_AMOUNT_USDT)
            /\ ~Truthy(sig[t].initialQuantity)
                 => /\ loc[t].avail # NoVal
                    /\ loc[t].avail >= sent'.size]_vars

\* a first buy that gives both overrides is sized by initialQuantity, with
\* the available USDT unknown
C25_QuantityTakesPrecedence ==
    \E t \in Tasks :
        /\ pc[t] = "place" /\ IsBuy(t) /\ loc[t].first = "yes"
        /\ Truthy(sig[t].initialAmount)
        /\ loc[t].size = sig[t].initialQuantity.n
        /\ loc[t].avail = NoVal

\* C26: initial overrides apply only to the first trade.  For a buy on a
\* key that has a stored trading balance, whatever initialAmount and
\* initialQuantity the signal carries, the order is for the stored balance
\* and the position written afterwards has that balance as usdtSpent and,
\* the ticker price being known, the balance divided by the price as
\* quantity: what a signal without overrides gives
C26_OverridesOnlyOnFirstTrade ==
    [][\A t \in Tasks :
         (IsBuy(t) /\ Has(balance, Key(t)))
         => /\ (pc[t] = "place" /\ pc'[t] = "placed")
                 => sent'.size = balance[Key(t)]
            /\ (pc[t] = "storeBuy" /\ Has(position', Key(t)))
                 => /\ position'[Key(t)].usdtSpent = balance[Key(t)]
                    /\ loc[t].price > 0
                         => position'[Key(t)].quantity
                              = balance[Key(t)] \div loc[t].price]_vars

OnFirstTrade(t) ==
    IsFirstTrade(Has(balance, Key(t)), Has(position, Key(t)))

\* C28: first-trade sell sizing.  A sell that gives an initialQuantity, on
\* a key the ledger holds nothing for, is not turned down for the state of
\* the key when neither the cooldown nor the daily limit stops it, and is
\* sized by initialQuantity; a sell for which isFirstTrade returned true and
\* which gives none is sized only in quantity mode, by the quantity of the
\* position it read
C28_FirstSellSizing ==
    [][\A t \in Tasks :
         /\ (IsSell(t) /\ pc[t] = "canSell" /\ pc'[t] # "canSell"
                /\ OnFirstTrade(t)
                /\ Truthy(sig[t].initialQuantity)
                /\ ~IsInCooldown(cooldowns, CdKey(t), now)
                /\ CheckDailyLimit(dailyTrades, now))
            => pc'[t] = "sellPos"
         /\ (IsSell(t) /\ pc[t] # "place" /\ pc'[t] = "place"
                /\ loc'[t].first = "yes")
            => IF Truthy(sig[t].initialQuantity)
               THEN loc'[t].size = sig[t].initialQuantity.n
               ELSE /\ sig[t].recurringMode = S("qu")
                    /\ loc[t].pos # NullPos
                    /\ loc'[t].size = loc[t].pos.quantity]_vars

\* the field is given: it is neither absent, nor empty, nor the N/A marker
Present(v) == Truthy(NormalizeValue(v))

\* C29: order type selection.  A signal that gives no orderType is taken
\* as limit when it gives a price and as market otherwise; a signal that
\* gives an orderType other than market or limit is turned down, in a step
\* that makes no exchange request, and no other signal is turned down for
\* its orderType; the order sent is a limit order exactly when the
\* orderType is limit and a price was given, and a market order otherwise
C29_OrderTypeSelection ==
    [][/\ \A t \in Tasks :
            (pc[t] = "idle" /\ pc'[t] = "canBuy")
            => sig'[t].orderType =
                 (IF Present(loc'[t].given.orderType)
                  THEN NormalizeValue(loc'[t].given.orderType)
                  ELSE IF Present(loc'[t].given.price)
                  THEN S("limit") ELSE S("market"))
       /\ returned'.res # "none"
          => (returned'.err = "Invalid orderType"
                <=> /\ Present(returned'.given.orderType)
                    /\ NormalizeValue(returned'.given.orderType)
                          \notin {S("market"), S("limit")})
       /\ returned'.err = "Invalid orderType"
          => /\ ~asked'
             /\ sent' = NoOrder
             /\ returned'.nsub = 0
             /\ \A t \in Tasks : pc'[t] = pc[t]
       /\ \A t \in Tasks :
            (pc[t] = "place" /\ pc'[t] = "placed")
            => /\ sent'.kind \in {"limit", "market"}
               /\ sent'.kind = "limit"
                    <=> /\ sig[t].orderType = S("limit")
                        /\ Present(loc[t].given.price)]_vars

\* a signal that asks for a limit order and gives no price has been sent
\* as a market order
C29_LimitWithoutPrice ==
    /\ sent.kind = "market"
    /\ \E t \in Tasks :
         /\ pc[t] = "placed"
         /\ loc[t].given.orderType = S("LIMIT")
         /\ ~Present(loc[t].given.price)

\* the fields of a normalised signal that the handler reads by value
ReadByValue(sg) ==
    [f \in DOMAIN sg \ {"category", "subcategory"} |-> sg[f]]

\* C30: not-applicable means absent.  A signal that carries the N/A marker
\* in a field and the same signal without that field pass or fail the field
\* checks alike, when they pass are mapped to the same strategy key and the
\* same cooldown key, and leave the handler the same values of every other
\* field
C30_MarkerMeansAbsent ==
    hook.pc = "keyed"
        => /\ hook.checks[1] = hook.checks[2]
           /\ hook.checks[1] = "ok"
                => /\ hook.keys[1] = hook.keys[2]
                   /\ hook.cdKeys[1] = hook.cdKeys[2]
                   /\ ReadByValue(hook.normalized[1])
                        = ReadByValue(hook.normalized[2])

\* C31: protection on the standard paths.  Every primary order that
\* processSignal submits and the exchange accepts comes from an order call
\* that goes on to request a protective conditional order
C31_ProtectiveAttempt ==
    sent.accepted => sent.algo

\* C32: protective stop placement.  The conditional order that
\* placeOrderWithSLTP submits has the side opposite to the primary order
\* and its size, and its trigger price is strictly below the ticker price
\* for a primary buy and strictly above it for a primary sell
C32_StopBeyondPrice ==
    sltp.stop # ""
        => /\ sltp.slOrder.side = (IF sltp.side = "buy" THEN "sell" ELSE "buy")
           /\ sltp.slOrder.sz = ToString(sltp.amount)
           /\ sltp.side = "buy" => sltp.slOrder.slTriggerPx * 100 < sltp.last
           /\ sltp.side = "sell" => sltp.slOrder.slTriggerPx * 100 > sltp.last

\* C33: sell bookkeeping order.  A position is removed only by the last
\* step of a sell, after the step that writes the trading balance: that
\* step leaves the balance of the key at the sell's proceeds (amount mode)
\* or at the usdtSpent of the position still stored (quantity mode), and in
\* quantity mode the read of the position finds it and is followed by the
\* write, never by the removal
C33_BalanceBeforeClear ==
    [][\A t \in Tasks :
         LET k == Key(t) IN
         /\ (pc[t] # "idle" /\ pc'[t] # pc[t]
                /\ Has(position, k) /\ ~Has(position', k))
              => IsSell(t) /\ pc[t] = "clear"
         /\ (pc[t] = "quPos" /\ pc'[t] # "quPos")
              => /\ pc'[t] = "storeBal"
                 /\ Has(position, k)
                 /\ loc'[t].pos = position[k]
         /\ (pc[t] = "storeBal" /\ pc'[t] # "storeBal")
              => /\ pc'[t] = "clear"
                 /\ Has(balance', k)
                 /\ balance'[k] = NextBalance(sig[t], loc[t])
                 /\ sig[t].recurringMode = S("qu")
                      => /\ Has(position', k)
                         /\ balance'[k] = position'[k].usdtSpent
    ]_vars

\* the symbol as given and its three other spellings
Variants(symbol) ==
    {symbol, RemoveSeparator(symbol), UnderscoreSeparator(symbol),
     UsdQuote(symbol)}

\* C34: tolerant instrument validation.  validateSymbol looks up the symbol
\* as given first and another spelling only after every lookup before it
\* missed; it returns true iff the exchange lists the symbol or one of its
\* spellings and no lookup it made threw, and false when a lookup threw;
\* on false processSignal returns 'Symbol not available on OKX' and does
\* not get to the order
C34_TolerantValidation ==
    LET c == symcheck
        listedVariants == Variants(c.symbol) \cap c.listed
        failed == c.failAt \in 1..Len(c.asked)
    IN  /\ c.asked # <<>> => c.asked[1] = c.symbol
        /\ \A i \in 2..Len(c.asked) :
              /\ c.asked[i] \in Variants(c.symbol) \ {c.symbol}
              /\ \A j \in 1..(i - 1) :
                    c.asked[j] \notin c.listed /\ c.failAt # j
        /\ c.pc \in {"returned", "admitted", "done"}
           => /\ c.result = ValidateSymbol(c.symbol, c.listed, c.failAt)
              /\ failed => ~c.result
              /\ ~failed => (c.result <=> listedVariants # {})
              /\ c.result => c.confirmed \in listedVariants
        /\ c.pc = "admitted" => c.result
        /\ (c.pc = "done" /\ ~c.result)
           => c.caller = "Symbol not available on OKX" /\ c.instId = ""

\* the symbol as given is not listed, a later spelling is, and the signal
\* was admitted
C34_FoundUnderAlternative ==
    /\ symcheck.pc = "admitted"
    /\ symcheck.symbol \notin symcheck.listed
    /\ Len(symcheck.asked) > 1

\* C35: the state machine is never stuck.  For every strategy key the
\* ledger holds a position for, and for every key it holds none for,
\* exactly one of canBuy and canSell answers true
C35_BuyOrSell ==
    /\ CanBuy(NullPos) /\ ~CanSell(NullPos)
    /\ \A k \in DOMAIN position :
          LET p == GetBuyPosition(position, k, TRUE)
          IN  CanBuy(p) # CanSell(p)

\* the strategies the signals name, and the strategy of a signal
Strategies == { <<S("SOL"), S(c), S("1m")>> : c \in {"a", "b"} }
Strategy(sg) == <<sg.coin, sg.category, sg.subcategory>>

\* what the ledger holds for a strategy: its position, whether it has a
\* trading balance, and the balance
LedgerOf(c) ==
    LET k == GetStrategyKey(c[1], c[2], c[3])
    IN  <<GetBuyPosition(position, k, TRUE), Has(balance, k),
          IF Has(balance, k) THEN balance[k] ELSE NoVal>>

C37_PositiveSize ==
    sent # NoOrder => sent.size > 0

\* C38: the funds check holds at submission.  Whenever an amount-sized buy
\* order is submitted, the account's available USDT at that moment is at
\* least the order's amount, however the handlers of concurrently processed
\* buy signals interleave
C38_FundsAtSubmission ==
    funds.submitted.by # 0
        => funds.submitted.available >= funds.submitted.amount

\* C39: orders use the validated instrument.  The instrument id under which
\* processSignal submits the order is the id the exchange confirmed during
\* validateSymbol in the same processing, and not an original spelling that
\* only an alternative stood in for
C39_OrderUnderConfirmed ==
    symcheck.instId # "" => symcheck.instId = symcheck.confirmed

====
